---- MODULE Spec2Model ----
(***************************************************************************)
(* Content pipeline of news-maker: the job store, the scheduler, the       *)
(* dispatcher loop (ArticleWorker) and its four stages, the content store  *)
(* (MongoDatabase behind MongoStorage) and the review routes.              *)
(*                                                                         *)
(* Time is the millisecond clock of Date: `now` is a coarse grid point and *)
(* `sub` the milliseconds elapsed since that grid point, so Date.now() is  *)
(* now + sub.  Identifiers of articles, reports and jobs are their         *)
(* positions in the collection (insertion order).                          *)
(***************************************************************************)
EXTENDS Integers, Sequences, FiniteSets, TLC

\* ---------------------------------------------------------------- bounds
MaxPasses == 1      \* periodic scheduler intervals that the clock may reach
MaxReviews == 1     \* approve / reject requests of the review actor
MaxManual == 1      \* manual fetch jobs created through the admin route
MaxFaults == 1      \* store outages injected into a stage
MaxFeedLen == 2     \* raw items in one feed document
MaxDays == 1        \* daily cleanup intervals that the clock may reach
MaxLoops == 2       \* dispatcher loops that start() may have begun

\* ------------------------------------------------------ program constants
FetchIntervalMs == 1800000
InitialDelayMs == 5000
WorkerSleepMs == 5000
HourMs == 3600000
DefaultRate == 60
DefaultMaxAttempts == 3
BatchSize == 10
FeedCap == 20
SlugMaxLen == 100
MinTextLen == 200
DayMs == 86400000
RetentionDays == 7
MinQuoteLen == 10
MaxQuotes == 10

\* ------------------------------------------------------------ vocabulary
None == 0                       \* absent id / null reference
NoTime == -1                    \* null Date
NoText == [len |-> 0, gaps |-> <<>>]   \* rawText null or ""
NoError == ""
NullUrl == "null"               \* rssUrl null or absent
EmptyUrl == ""                  \* rssUrl: ""
FeedUrl == "feed"

SourceIds == {1, 2}
TitleA == <<"A", "b">>
TitleB == <<"a", " ", "b", "!">>
TitleC == <<"a", "b", "?">>

\* raw <item> elements of a feed document; url "" is an item without <link>
ItemA == [url |-> "u1", title |-> TitleA]
ItemA2 == [url |-> "u2", title |-> TitleA]
ItemC == [url |-> "u2", title |-> TitleC]
ItemNoLink == [url |-> "", title |-> TitleB]

RECURSIVE SeqsUpTo(_, _)
SeqsUpTo(S, n) ==
  IF n = 0 THEN { <<>> }
  ELSE LET shorter == SeqsUpTo(S, n - 1)
       IN  shorter \cup { Append(s, x) : s \in shorter, x \in S }

\* feed documents over one URL, and over two URLs
FeedDocs1 == SeqsUpTo({ItemA, ItemNoLink}, MaxFeedLen)
FeedDocs2 == SeqsUpTo({ItemA, ItemA2, ItemC}, MaxFeedLen)

Min(a, b) == IF a < b THEN a ELSE b
Take(s, n) == SubSeq(s, 1, Min(n, Len(s)))
IdxSeq(n) == [i \in 1..n |-> i]
Range(s) == { s[i] : i \in 1..Len(s) }

\* ----------------------------------------------------------------- state
VARIABLES
  now,          \* coarse clock (ms)
  sub,          \* ms elapsed since `now`
  sources,      \* Source Registry: id -> Source
  articles,     \* Content Store: sequence of Article
  reports,      \* Content Store: sequence of Report
  jobs,         \* Job Store: sequence of Job
  wpc,          \* position of the dispatcher loop
  batch,        \* pendingJobs of the running cycle (snapshots still to do)
  cur,          \* snapshot of the job being processed
  loc,          \* locals of the running stage
  initialTimer, \* setTimeout of the initial scheduling pass still pending
  intervalDue,  \* next expiry of the 30-minute setInterval
  cleanupDue,   \* next expiry of the daily setInterval
  manual,       \* manual fetch jobs created so far
  reviews,      \* review requests served so far
  inReview,     \* article of the review request awaiting its report update
  faults,       \* store outages injected so far
  isProcessing, \* ArticleWorker.isProcessing
  loops,        \* dispatcher loops of a worker whose caller stops and starts
                \* it again (SpecWorker); the loop started at module load
                \* is otherwise followed through wpc, batch, cur and loc
  intervals,    \* ScheduledJobs.intervals holds the two setInterval handles
  sessions,     \* routes.ts `sessions`: token -> expiry of its session
  issued,       \* tokens generateSessionToken has returned so far
  lastRes       \* the last response of an authenticated route

vars == << now, sub, sources, articles, reports, jobs, wpc, batch, cur, loc,
           initialTimer, intervalDue, cleanupDue, manual, reviews, inReview, faults, isProcessing, loops, intervals, sessions, issued, lastRes >>

DateNow == now + sub

\* session tokens a client may present; the session map before any login
Tokens == {"t1", "t2"}
NoSessions == [tok \in Tokens |-> NoTime]
NoRes == [token |-> "", status |-> 0]

NoJob == [id |-> None, type |-> "", data |-> [sourceId |-> None, articleId |-> None],
          attempts |-> 0, maxAttempts |-> 0]
NoLoc == [articleId |-> None, sourceId |-> None, items |-> <<>>, rawText |-> NoText,
          metadata |-> NoError, reportId |-> None]

\* --------------------------------------------------------------- storage
\* MongoDatabase.createJob: inserts the document as given (no defaults).
createJob(js, type, data, scheduledFor) ==
  Append(js, [type |-> type, status |-> "pending", data |-> data,
              attempts |-> 0, maxAttempts |-> 0, error |-> NoError,
              scheduledFor |-> scheduledFor])

\* getJobsByStatus without the status filter
getJobsAnyStatus(status, limit) ==
  LET ids == IdxSeq(Len(jobs))
      cut == IF limit = 0 THEN ids ELSE Take(ids, limit)
  IN  [k \in 1..Len(cut) |->
         [id |-> cut[k], type |-> jobs[cut[k]].type, data |-> jobs[cut[k]].data,
          attempts |-> jobs[cut[k]].attempts, maxAttempts |-> jobs[cut[k]].maxAttempts]]

\* MongoDatabase.getJobsByStatus: find({status}).limit(limit), natural order.
getJobsByStatus(status, limit) ==
  LET ids == SelectSeq(IdxSeq(Len(jobs)), LAMBDA i : jobs[i].status = status)
      cut == IF limit = 0 THEN ids ELSE Take(ids, limit)
  IN  [k \in 1..Len(cut) |->
         [id |-> cut[k], type |-> jobs[cut[k]].type, data |-> jobs[cut[k]].data,
          attempts |-> jobs[cut[k]].attempts, maxAttempts |-> jobs[cut[k]].maxAttempts]]

\* getArticlesByStatus without the status filter
getArticlesAnyStatus(arts, status, limit) ==
  IF limit = 0 THEN IdxSeq(Len(arts)) ELSE Take(IdxSeq(Len(arts)), limit)

\* MongoDatabase.getArticlesByStatus: ids of the articles in `status`.
getArticlesByStatus(arts, status, limit) ==
  LET ids == SelectSeq(IdxSeq(Len(arts)), LAMBDA i : arts[i].status = status)
  IN  IF limit = 0 THEN ids ELSE Take(ids, limit)

\* MongoDatabase.getArticleByUrl
getArticleByUrl(arts, url) ==
  IF \E i \in 1..Len(arts) : arts[i].url = url
  THEN CHOOSE i \in 1..Len(arts) : arts[i].url = url
  ELSE None

\* MongoDatabase.getReportByArticleId
getReportByArticleId(reps, articleId) ==
  IF \E i \in 1..Len(reps) : reps[i].articleId = articleId
  THEN CHOOSE i \in 1..Len(reps) : reps[i].articleId = articleId
  ELSE None

\* articles without the unique index on slug
CanInsertArticleUrlOnly(arts, a) ==
  \A i \in 1..Len(arts) : arts[i].url # a.url

\* unique indexes on articles.url and articles.slug: insertOne throws on a
\* duplicate key
CanInsertArticle(arts, a) ==
  \A i \in 1..Len(arts) : arts[i].url # a.url /\ arts[i].slug # a.slug

\* reports without the unique index on articleId
CanInsertReportAlways(reps, r) == TRUE

\* unique index on reports.articleId
CanInsertReport(reps, r) ==
  \A i \in 1..Len(reps) : reps[i].articleId # r.articleId

\* ------------------------------------------------------------------ slug
Lower(c) == IF c = "A" THEN "a" ELSE IF c = "B" THEN "b" ELSE c
IsWordChar(c) == c \in {"a", "b", "A", "B", "_"}
IsSpace(c) == c = " "

\* .replace(/[^\w\s-]/g, '')
StripNonWord(s) == SelectSeq(s, LAMBDA c : IsWordChar(c) \/ IsSpace(c) \/ c = "-")

\* .replace(/\s+/g, '-') then .replace(/--+/g, '-'): every run of spaces
\* becomes one hyphen, then every run of hyphens becomes one hyphen
RECURSIVE Hyphenate(_)
Hyphenate(s) ==
  IF s = <<>> THEN <<>>
  ELSE LET c == IF IsSpace(Head(s)) THEN "-" ELSE Head(s)
           rest == Hyphenate(Tail(s))
       IN  IF c = "-" /\ rest # <<>> /\ Head(rest) = "-" THEN rest
           ELSE <<c>> \o rest

\* Number.prototype.toString(36)
Digit36(d) ==
  <<"0","1","2","3","4","5","6","7","8","9","a","b","c","d","e","f","g","h","i",
    "j","k","l","m","n","o","p","q","r","s","t","u","v","w","x","y","z">>[d + 1]

RECURSIVE ToString36(_)
ToString36(n) ==
  IF n < 36 THEN << Digit36(n) >>
  ELSE Append(ToString36(n \div 36), Digit36(n % 36))

\* NewsService.generateSlug (.trim() has nothing to remove: the spaces are
\* hyphens by then)
generateSlug(title, ms) ==
  Take(Hyphenate(StripNonWord([i \in 1..Len(title) |-> Lower(title[i])])), SlugMaxLen)
    \o <<"-">> \o ToString36(ms)

\* ------------------------------------------------------------------ feed
\* response.text() of a feed request: `items` are the <item>..</item> blocks
\* the text holds, `wellFormed` whether the text is an XML document at all
\* (a truncated or non-XML body is not, and may still hold whole blocks)
XmlTexts(docs) == [wellFormed : BOOLEAN, items : docs]

\* NewsService.parseRssFeed: a regular-expression scan for <item> blocks
\* that never looks at the rest of the text; items with a title and a link,
\* first 20
parseRssFeed(xmlText) ==
  Take(SelectSeq(xmlText.items, LAMBDA it : it.url # ""), FeedCap)

\* saveArticles without the lookup by URL, on a store without unique indexes
RECURSIVE saveArticlesNoDedup(_, _, _, _, _, _)
saveArticlesNoDedup(arts, items, k, sourceId, ms, step) ==
  IF k > Len(items) THEN [articles |-> arts, savedCount |-> 0]
  ELSE
    LET item == items[k]
        a == [url |-> item.url, title |-> item.title,
              slug |-> generateSlug(item.title, ms), sourceId |-> sourceId,
              status |-> "fetched", rawText |-> NoText, metadata |-> NoError,
              fetchedAt |-> ms]
        rest == saveArticlesNoDedup(Append(arts, a), items, k + 1, sourceId,
                                    ms + step, step)
    IN  [articles |-> rest.articles, savedCount |-> rest.savedCount + 1]

\* NewsService.saveArticles: result of the loop over items[k..]; `ms` is
\* Date.now() at item k and `step` the ms that pass between two items
RECURSIVE saveArticles(_, _, _, _, _, _)
saveArticles(arts, items, k, sourceId, ms, step) ==
  IF k > Len(items) THEN [articles |-> arts, savedCount |-> 0]
  ELSE
    LET item == items[k]
        a == [url |-> item.url, title |-> item.title,
              slug |-> generateSlug(item.title, ms), sourceId |-> sourceId,
              status |-> "fetched", rawText |-> NoText, metadata |-> NoError,
              fetchedAt |-> ms]
        saved == getArticleByUrl(arts, item.url) = None /\ CanInsertArticle(arts, a)
        rest == saveArticles(IF saved THEN Append(arts, a) ELSE arts,
                             items, k + 1, sourceId, ms + step, step)
    IN  [articles |-> rest.articles,
         savedCount |-> rest.savedCount + (IF saved THEN 1 ELSE 0)]

\* ------------------------------------------------------------- scheduler
\* ScheduledJobs.scheduleNewsFetch, the test of one source:
\* timeSinceLastFetch < (60 * 60 * 1000) / (rateLimitPerHour || 60), the
\* division being exact in the code
RateOf(source) ==
  IF source.rateLimitPerHour = 0 THEN DefaultRate ELSE source.rateLimitPerHour

\* the scheduler without its rate-limit test
RateLimitedNever(source, t) == FALSE

RateLimited(source, t) ==
  /\ source.lastFetchedAt # NoTime
  /\ (t - source.lastFetchedAt) * RateOf(source) < HourMs

\* MongoDatabase.getActiveRssSources:
\* find({isActive: true, rssUrl: {$exists: true, $ne: null}})
getActiveRssSources ==
  { s \in SourceIds : sources[s].isActive /\ sources[s].rssUrl # NullUrl }

\* the for loop of scheduleNewsFetch over `todo`; the store rejects the
\* insert of the job of source `rejected`, and the catch around the loop
\* ends the pass there
RECURSIVE ScheduleAll(_, _, _, _)
ScheduleAll(js, todo, t, rejected) ==
  IF todo = {} THEN js
  ELSE LET s == CHOOSE x \in todo : \A y \in todo : x <= y
       IN  IF RateLimited(sources[s], t)
           THEN ScheduleAll(js, todo \ {s}, t, rejected)
           ELSE IF s = rejected THEN js
           ELSE ScheduleAll(createJob(js, "fetch", [sourceId |-> s, articleId |-> None], t),
                            todo \ {s}, t, rejected)

PassDue == (initialTimer /\ now >= InitialDelayMs) \/ (intervals /\ now >= intervalDue)

\* ScheduledJobs.scheduleNewsFetch; `rejected` is the source whose createJob
\* the store rejects in this pass, None when the store answers every call
scheduleNewsFetch(rejected) ==
  /\ PassDue
  /\ IF rejected = None THEN UNCHANGED faults
     ELSE /\ faults < MaxFaults
          /\ rejected \in getActiveRssSources
          /\ ~RateLimited(sources[rejected], DateNow)
          /\ faults' = faults + 1
  /\ jobs' = ScheduleAll(jobs, getActiveRssSources, DateNow, rejected)
  /\ IF initialTimer /\ now >= InitialDelayMs
     THEN initialTimer' = FALSE /\ UNCHANGED intervalDue
     ELSE intervalDue' = intervalDue + FetchIntervalMs /\ UNCHANGED initialTimer
  /\ UNCHANGED << now, sub, sources, articles, reports, wpc, batch, cur, loc,
                  cleanupDue, manual, reviews, inReview, isProcessing, loops, intervals, sessions, issued, lastRes >>

\* ScheduledJobs.createManualFetchJob (POST /api/admin/fetch/:sourceId)
createManualFetchJob(s) ==
  /\ manual < MaxManual
  /\ manual' = manual + 1
  /\ jobs' = createJob(jobs, "fetch", [sourceId |-> s, articleId |-> None], DateNow)
  /\ UNCHANGED << now, sub, sources, articles, reports, wpc, batch, cur, loc,
                  initialTimer, intervalDue, cleanupDue, reviews, inReview, faults, isProcessing, loops, intervals, sessions, issued, lastRes >>

\* MongoDatabase.deleteOldRawText: $unset rawText where fetchedAt < cutoff
\* and rawText is present (the cutoff is setDate(getDate() - 7): 7 days of
\* 24 hours)
deleteOldRawText(arts, olderThanDays, t) ==
  [i \in 1..Len(arts) |->
     IF arts[i].fetchedAt < t - olderThanDays * DayMs /\ arts[i].rawText # NoText
     THEN [arts[i] EXCEPT !.rawText = NoText]
     ELSE arts[i]]

CleanupDue == intervals /\ now >= cleanupDue

\* a cleanup that deletes the completed and failed jobs it finds
cleanupOldJobsDeletes(js) ==
  SelectSeq(js, LAMBDA job : job.status \notin {"completed", "failed"})

\* ScheduledJobs.cleanupOldJobs: reads the completed and failed jobs and
\* logs how many are older than 30 days; the Job Store is left as it is
cleanupOldJobs(js) == js

\* ScheduledJobs.cleanupOldData: deleteOldRawText(7), then cleanupOldJobs,
\* which only counts the old jobs
cleanupOldData ==
  /\ CleanupDue
  /\ articles' = deleteOldRawText(articles, RetentionDays, DateNow)
  /\ jobs' = cleanupOldJobs(jobs)
  /\ cleanupDue' = cleanupDue + DayMs
  /\ UNCHANGED << now, sub, sources, reports, wpc, batch, cur, loc,
                  initialTimer, intervalDue, manual, reviews, inReview, faults, isProcessing, loops, intervals, sessions, issued, lastRes >>

\* ----------------------------------------------------------------- clock
\* Time passes to the next timer expiry, as far as `horizon`; a timer that
\* is due fires before time passes on.
NextExpiry == Min(IF initialTimer THEN InitialDelayMs ELSE intervalDue, cleanupDue)

Advance(horizon) ==
  /\ ~PassDue
  /\ ~CleanupDue
  /\ NextExpiry <= horizon
  /\ now' = NextExpiry
  /\ sub' = 0
  /\ UNCHANGED << sources, articles, reports, jobs, wpc, batch, cur, loc,
                  initialTimer, intervalDue, cleanupDue, manual, reviews, inReview, faults, isProcessing, loops, intervals, sessions, issued, lastRes >>

\* ------------------------------------------------------------ dispatcher
DefaultLimit == 50

MaxAttemptsOf(job) ==
  IF job.maxAttempts = 0 THEN DefaultMaxAttempts ELSE job.maxAttempts

\* MongoDatabase.updateJob with {status}
setJobStatus(js, id, status) == [js EXCEPT ![id].status = status]

\* markJobFailed comparing with > instead of >=
markJobFailedOffByOne(js, job, msg) ==
  LET attempts == job.attempts + 1
      maxAttempts == MaxAttemptsOf(job)
  IN  [js EXCEPT ![job.id] =
         [@ EXCEPT !.status = IF attempts > maxAttempts THEN "failed" ELSE "pending",
                   !.error = msg,
                   !.attempts = attempts]]

\* markJobFailed that does not store the error message
markJobFailedNoError(js, job, msg) ==
  LET attempts == job.attempts + 1
      maxAttempts == MaxAttemptsOf(job)
  IN  [js EXCEPT ![job.id] =
         [@ EXCEPT !.status = IF attempts >= maxAttempts THEN "failed" ELSE "pending",
                   !.attempts = attempts]]

\* ArticleWorker.markJobFailed, computed from the snapshot `job` of the batch
markJobFailed(js, job, msg) ==
  LET attempts == job.attempts + 1
      maxAttempts == MaxAttemptsOf(job)
  IN  [js EXCEPT ![job.id] =
         [@ EXCEPT !.status = IF attempts >= maxAttempts THEN "failed" ELSE "pending",
                   !.error = msg,
                   !.attempts = attempts]]

\* a loop that gives up its batch after a job
AfterJobAbandon == "sleep"

\* position of the loop after a job: next job of the batch, or the sleep
AfterJob == IF batch = <<>> THEN "sleep" ELSE "loop"

\* the catch of processJobs: the stage threw `msg` having left the job store
\* as `js`
Throw(js, msg) ==
  /\ jobs' = markJobFailed(js, cur, msg)
  /\ wpc' = AfterJob
  /\ cur' = NoJob
  /\ loc' = NoLoc
  /\ UNCHANGED batch

\* the switch of ArticleWorker.processJob
StageOf(type) ==
  CASE type = "fetch" -> "fetch"
    [] type = "extract" -> "extract"
    [] type = "humanize" -> "humanize"
    [] type = "fact-check" -> "factcheck"
    [] OTHER -> "unknown"

\* ArticleWorker.processJobs: a cycle starts and reads its batch
processJobs ==
  /\ wpc = "sleep"
  /\ getJobsByStatus("pending", BatchSize) # <<>>
  /\ batch' = getJobsByStatus("pending", BatchSize)
  /\ wpc' = "loop"
  /\ UNCHANGED << now, sub, sources, articles, reports, jobs, cur, loc,
                  initialTimer, intervalDue, cleanupDue, manual, reviews, inReview, faults, isProcessing, loops, intervals, sessions, issued, lastRes >>

\* ArticleWorker.processJob, up to the switch
processJob ==
  /\ wpc = "loop"
  /\ batch # <<>>
  /\ cur' = Head(batch)
  /\ batch' = Tail(batch)
  /\ jobs' = setJobStatus(jobs, Head(batch).id, "processing")
  /\ wpc' = StageOf(Head(batch).type)
  /\ UNCHANGED << now, sub, sources, articles, reports, loc,
                  initialTimer, intervalDue, cleanupDue, manual, reviews, inReview, faults, isProcessing, loops, intervals, sessions, issued, lastRes >>

\* a default case that breaks out of the switch
unknownJobTypeIgnored ==
  /\ wpc = "unknown"
  /\ wpc' = "complete"
  /\ UNCHANGED << now, sub, sources, articles, reports, jobs, batch, cur, loc,
                  initialTimer, intervalDue, cleanupDue, manual, reviews, inReview, faults, isProcessing, loops, intervals, sessions, issued, lastRes >>

\* ArticleWorker.processJob, the default case of the switch
unknownJobType ==
  /\ wpc = "unknown"
  /\ Throw(jobs, "Unknown job type")
  /\ UNCHANGED << now, sub, sources, articles, reports,
                  initialTimer, intervalDue, cleanupDue, manual, reviews, inReview, faults, isProcessing, loops, intervals, sessions, issued, lastRes >>

\* ArticleWorker.processJob, after the stage returned
markCompleted ==
  /\ wpc = "complete"
  /\ jobs' = setJobStatus(jobs, cur.id, "completed")
  /\ wpc' = AfterJob
  /\ cur' = NoJob
  /\ loc' = NoLoc
  /\ UNCHANGED << now, sub, sources, articles, reports, batch,
                  initialTimer, intervalDue, cleanupDue, manual, reviews, inReview, faults, isProcessing, loops, intervals, sessions, issued, lastRes >>

\* ----------------------------------------------------------- fetch stage
\* ArticleWorker.processFetchJob up to the feed request of fetchFromRss
processFetchJob ==
  /\ wpc = "fetch"
  /\ LET sourceId == cur.data.sourceId IN
       IF sourceId = None
       THEN Throw(jobs, "Source ID not provided for fetch job")
       ELSE IF sourceId \notin SourceIds
       THEN Throw(jobs, "Source not found")
       ELSE IF sources[sourceId].rssUrl \in {NullUrl, EmptyUrl}
       THEN Throw(jobs, "No RSS URL for source")
       ELSE /\ wpc' = "fetch_net"
            /\ loc' = [NoLoc EXCEPT !.sourceId = sourceId]
            /\ UNCHANGED << jobs, batch, cur >>
  /\ UNCHANGED << now, sub, sources, articles, reports,
                  initialTimer, intervalDue, cleanupDue, manual, reviews, inReview, faults, isProcessing, loops, intervals, sessions, issued, lastRes >>

\* a fetch that does not record its time
updateSourceLastFetchNoop(srcs, sourceId, t) == srcs

\* MongoDatabase.updateSourceLastFetch
updateSourceLastFetch(srcs, sourceId, t) ==
  [srcs EXCEPT ![sourceId].lastFetchedAt = t]

\* NewsService.fetchFromRss once the feed request settles: `ok` is a 2xx
\* response with document `doc`
fetchFromRss(ok, xmlText) ==
  /\ wpc = "fetch_net"
  /\ IF ~ok
     THEN /\ Throw(jobs, "HTTP error")
          /\ UNCHANGED sources
     ELSE /\ sources' = updateSourceLastFetch(sources, loc.sourceId, DateNow)
          /\ loc' = [loc EXCEPT !.items = parseRssFeed(xmlText)]
          /\ wpc' = "fetch_save"
          /\ UNCHANGED << jobs, batch, cur >>
  /\ UNCHANGED << now, sub, articles, reports,
                  initialTimer, intervalDue, cleanupDue, manual, reviews, inReview, faults, isProcessing, loops, intervals, sessions, issued, lastRes >>

RECURSIVE EnqueueExtract(_, _)
EnqueueExtract(js, ids) ==
  IF ids = <<>> THEN js
  ELSE EnqueueExtract(createJob(js, "extract",
                                [sourceId |-> None, articleId |-> Head(ids)], NoTime),
                      Tail(ids))

\* the articles processFetchJob enqueues extraction for
newArticles(arts, savedCount) ==
  Take(getArticlesByStatus(arts, "fetched", savedCount), savedCount)

\* ArticleWorker.processFetchJob after fetchFromRss: saveArticles, then the
\* extract jobs
saveAndEnqueue(step) ==
  /\ wpc = "fetch_save"
  /\ LET res == saveArticles(articles, loc.items, 1, loc.sourceId, DateNow, step) IN
       /\ articles' = res.articles
       /\ jobs' = EnqueueExtract(jobs, newArticles(res.articles, res.savedCount))
       /\ sub' = IF res.savedCount > 0 THEN sub + Len(loc.items) * step + 1 ELSE sub
  /\ wpc' = "complete"
  /\ UNCHANGED << now, sources, reports, batch, cur, loc,
                  initialTimer, intervalDue, cleanupDue, manual, reviews, inReview, faults, isProcessing, loops, intervals, sessions, issued, lastRes >>

\* ------------------------------------------------------ extraction stage
\* MongoDatabase.updateArticle with {status}
setArticleStatus(arts, id, status) == [arts EXCEPT ![id].status = status]

\* lengths of the visible text extractTextFromHtml finds in a page
PageLens == {0, MinTextLen - 1, MinTextLen}

\* a text: its length, and the lengths of the passages between each two
\* consecutive double-quote characters in it
Text(len, gaps) == [len |-> len, gaps |-> gaps]

\* visible texts of the pages: without a double quote, and one with three
\* double quotes around a short and a long passage
Pages ==
  { Text(len, <<>>) : len \in PageLens } \cup { Text(MinTextLen, <<MinQuoteLen - 1, MinQuoteLen>>) }

\* ArticleWorker.processExtractionJob up to the page request
processExtractionJob ==
  /\ wpc = "extract"
  /\ LET articleId == cur.data.articleId
         fetched == getArticlesByStatus(articles, "fetched", DefaultLimit)
     IN  IF articleId = None
         THEN Throw(jobs, "Article ID not provided for extraction job")
         ELSE IF articleId \notin Range(fetched)
         THEN Throw(jobs, "Article not found")
         ELSE /\ wpc' = "extract_net"
              /\ loc' = [NoLoc EXCEPT !.articleId = articleId,
                                      !.metadata = articles[articleId].metadata]
              /\ UNCHANGED << jobs, batch, cur >>
  /\ UNCHANGED << now, sub, sources, articles, reports,
                  initialTimer, intervalDue, cleanupDue, manual, reviews, inReview, faults, isProcessing, loops, intervals, sessions, issued, lastRes >>

\* the catch of extractArticleContent leaving the metadata as it was
markExtractionFailedNoMetadata(arts, id, msg) ==
  [arts EXCEPT ![id].status = "failed"]

\* the catch of extractArticleContent: status failed, the message in
\* metadata.extractionError
markExtractionFailed(arts, id, msg) ==
  [arts EXCEPT ![id].status = "failed", ![id].metadata = msg]

\* ExtractorService.extractArticleContent once the page request settles
\* (`ok`: a 2xx response whose visible text is `text`), then the humanize job
\* of processExtractionJob
extractArticleContent(ok, text) ==
  /\ wpc = "extract_net"
  /\ IF ok /\ text.len >= MinTextLen
     THEN /\ articles' = [articles EXCEPT ![loc.articleId].rawText = text,
                                          ![loc.articleId].status = "extracted"]
          /\ jobs' = createJob(jobs, "humanize",
                               [sourceId |-> None, articleId |-> cur.data.articleId], NoTime)
          /\ wpc' = "complete"
          /\ UNCHANGED << batch, cur, loc >>
     ELSE LET msg == IF ok THEN "Extracted text too short or empty" ELSE "HTTP error" IN
          /\ articles' = markExtractionFailed(articles, loc.articleId, msg)
          /\ Throw(jobs, msg)
  /\ UNCHANGED << now, sub, sources, reports,
                  initialTimer, intervalDue, cleanupDue, manual, reviews, inReview, faults, isProcessing, loops, intervals, sessions, issued, lastRes >>

\* ---------------------------------------------------- humanization stage
\* numbers in the providers' JSON are counted in tenths: 875 is 87.5
Tenths == 10

Max(a, b) == IF a > b THEN a ELSE b

\* Math.round: the nearest integer, halves towards +Infinity
MathRound(x) == (x + Tenths \div 2) \div Tenths

Missing == "missing"          \* field absent from the provider's JSON
Empty == "empty"              \* "" or []
Full == "full"

\* what generateContent can settle with: a rejection, an empty text, or a
\* JSON payload
GeminiPayloads ==
  { [kind |-> "json", tldr |-> t, bullets |-> b, humanizedHtml |-> h,
     humanizedPlain |-> Full, confidence |-> 87 * Tenths] :
       t \in {Missing, Empty, Full},
       b \in {Missing, Empty, Full},
       h \in {Missing, Empty, Full} }

NoPayload(kind) ==
  [kind |-> kind, tldr |-> Missing, bullets |-> Missing, humanizedHtml |-> Missing,
   humanizedPlain |-> Missing, confidence |-> 0]

GeminiResponses == { NoPayload("rejected"), NoPayload("no text") } \cup GeminiPayloads

\* JavaScript truthiness of a field: undefined and "" are falsy, [] is truthy
Truthy(v, isArray) == v = Full \/ (isArray /\ v = Empty)

\* humanizeArticle validating tldr and bullets only
humanizeArticleReturnsNoHtmlCheck(resp) ==
  /\ resp.kind = "json"
  /\ Truthy(resp.tldr, FALSE)
  /\ Truthy(resp.bullets, TRUE)

\* humanizeArticle validating tldr and humanizedHtml only
humanizeArticleReturnsNoBulletsCheck(resp) ==
  /\ resp.kind = "json"
  /\ Truthy(resp.tldr, FALSE)
  /\ Truthy(resp.humanizedHtml, FALSE)

\* gemini.humanizeArticle: TRUE when it returns the payload, FALSE when it
\* throws "Failed to humanize article"
humanizeArticleReturns(resp) ==
  /\ resp.kind = "json"
  /\ Truthy(resp.tldr, FALSE)
  /\ Truthy(resp.bullets, TRUE)
  /\ Truthy(resp.humanizedHtml, FALSE)

\* what generateContent can settle with in calculateSimilarity: a rejection
\* or a JSON object with the number `similarity`
SimilarityReplies(values) ==
  { [kind |-> "rejected", similarity |-> 0] }
    \cup { [kind |-> "json", similarity |-> v] : v \in values }

SimilarityDown == [kind |-> "rejected", similarity |-> 0]

\* below the range, and above it
SimilarityEnds == {0 - Tenths, 150 * Tenths}

\* gemini.calculateSimilarity: Math.max(0, Math.min(100, similarity || 50)),
\* 50 on any failure
calculateSimilarity(reply) ==
  IF reply.kind # "json" THEN 50 * Tenths
  ELSE Max(0, Min(100 * Tenths,
                  IF reply.similarity = 0 THEN 50 * Tenths ELSE reply.similarity))

\* the stage without its test of rawText
MissingRawTextNever(article) == FALSE

\* !article.rawText: null (purged or never extracted) or ""
MissingRawText(article) == article.rawText = NoText

\* ArticleWorker.processHumanizationJob up to the call of humanizeArticle
processHumanizationJob ==
  /\ wpc = "humanize"
  /\ LET articleId == cur.data.articleId
         extracted == getArticlesByStatus(articles, "extracted", DefaultLimit)
     IN  IF articleId = None
         THEN Throw(jobs, "Article ID not provided for humanization job")
         ELSE IF articleId \notin Range(extracted) \/ MissingRawText(articles[articleId])
         THEN Throw(jobs, "Article not found or missing raw text")
         ELSE /\ wpc' = "humanize_net"
              /\ loc' = [NoLoc EXCEPT !.articleId = articleId,
                                      !.rawText = articles[articleId].rawText]
              /\ UNCHANGED << jobs, batch, cur >>
  /\ UNCHANGED << now, sub, sources, articles, reports,
                  initialTimer, intervalDue, cleanupDue, manual, reviews, inReview, faults, isProcessing, loops, intervals, sessions, issued, lastRes >>

\* the Report processHumanizationJob builds
newReport(articleId, content, similarityScore) ==
  [articleId |-> articleId, tldr |-> content.tldr, bullets |-> content.bullets,
   humanizedHtml |-> content.humanizedHtml, humanizedPlain |-> content.humanizedPlain,
   aiScore |-> MathRound(content.confidence),
   similarityScore |-> MathRound(similarityScore),
   checks |-> [factChecks |-> <<>>, quotedTexts |-> <<>>],
   reviewedAt |-> NoTime]

\* MongoDatabase.createReport: the collection after insertOne, which throws
\* on the unique index
createReport(reps, r) == Append(reps, r)

\* ArticleWorker.processHumanizationJob once humanizeArticle and
\* calculateSimilarity settled.  outage = "none": the store answers every
\* call; "createJob": the insert of the fact-check job is rejected;
\* "store": the store is unreachable after createReport, so updateArticle
\* swallows its error and createJob throws; "updateArticle": the store
\* rejects that one call, whose error updateArticle swallows.
humanizeSettled(resp, reply, outage) ==
  /\ wpc = "humanize_net"
  /\ outage # "none" => faults < MaxFaults
  /\ IF ~humanizeArticleReturns(resp)
     THEN /\ outage = "none"
          /\ Throw(jobs, "Failed to humanize article")
          /\ UNCHANGED << articles, reports, faults, isProcessing, loops, intervals, sessions, issued, lastRes >>
     ELSE LET r == newReport(loc.articleId, resp, calculateSimilarity(reply)) IN
          IF ~CanInsertReport(reports, r)
          THEN /\ outage = "none"
               /\ Throw(jobs, "E11000 duplicate key error")
               /\ UNCHANGED << articles, reports, faults, isProcessing, loops, intervals, sessions, issued, lastRes >>
          ELSE /\ reports' = createReport(reports, r)
               /\ articles' = IF outage \in {"store", "updateArticle"} THEN articles
                              ELSE setArticleStatus(articles, loc.articleId, "humanized")
               /\ IF outage \in {"none", "updateArticle"}
                  THEN /\ jobs' = createJob(jobs, "fact-check",
                                    [sourceId |-> None, articleId |-> cur.data.articleId], NoTime)
                       /\ wpc' = "complete"
                       /\ faults' = IF outage = "none" THEN faults ELSE faults + 1
                       /\ UNCHANGED << batch, cur, loc, isProcessing, loops, intervals, sessions, issued, lastRes >>
                  ELSE /\ Throw(jobs, "store unreachable")
                       /\ faults' = faults + 1
  /\ UNCHANGED << now, sub, sources, initialTimer, intervalDue, cleanupDue, manual, reviews, inReview,
                  isProcessing, loops, intervals, sessions, issued, lastRes >>

\* ------------------------------------------------------ fact-check stage
FactCheckResults == { <<>>, << [verified |-> TRUE, confidence |-> 90] >> }

\* what generateContent can settle with in performFactCheck: a rejection, an
\* empty text, or a JSON array
VerifierResponses ==
  { [kind |-> k, checks |-> <<>>] : k \in {"rejected", "no text"} }
    \cup { [kind |-> "json", checks |-> fc] : fc \in FactCheckResults }

\* performFactCheck reporting a failed call as an unverified claim
performFactCheckUnverified(resp) ==
  IF resp.kind = "json" THEN resp.checks
  ELSE << [verified |-> FALSE, confidence |-> 0] >>

\* gemini.performFactCheck: [] when the call fails or returns no text
performFactCheck(resp) ==
  IF resp.kind = "json" THEN resp.checks ELSE <<>>

\* ArticleWorker.extractQuotes: /"([^"]{10,})"/g scans the double quotes
\* from the left; a passage of 10 or more characters between two of them is
\* a match and the scan resumes after its closing quote; the first 10
\* matches are kept
RECURSIVE ScanQuotes(_)
ScanQuotes(gaps) ==
  IF gaps = <<>> THEN <<>>
  ELSE IF Head(gaps) >= MinQuoteLen
       THEN << Head(gaps) >> \o (IF Len(gaps) >= 2 THEN ScanQuotes(Tail(Tail(gaps))) ELSE <<>>)
       ELSE ScanQuotes(Tail(gaps))

extractQuotes(text) == Take(ScanQuotes(text.gaps), MaxQuotes)

\* ArticleWorker.processFactCheckJob up to the call of performFactCheck
processFactCheckJob ==
  /\ wpc = "factcheck"
  /\ LET articleId == cur.data.articleId
         humanized == getArticlesByStatus(articles, "humanized", DefaultLimit)
         reportId == getReportByArticleId(reports, articleId)
     IN  IF articleId = None
         THEN Throw(jobs, "Article ID not provided for fact-check job")
         ELSE IF \/ articleId \notin Range(humanized)
                 \/ reportId = None
                 \/ articles[articleId].rawText = NoText
         THEN Throw(jobs, "Article or report not found")
         ELSE /\ wpc' = "factcheck_net"
              /\ loc' = [NoLoc EXCEPT !.articleId = articleId, !.reportId = reportId,
                                      !.rawText = articles[articleId].rawText]
              /\ UNCHANGED << jobs, batch, cur >>
  /\ UNCHANGED << now, sub, sources, articles, reports,
                  initialTimer, intervalDue, cleanupDue, manual, reviews, inReview, faults, isProcessing, loops, intervals, sessions, issued, lastRes >>

\* an update that stores a fresh document holding only the generated
\* fields and the new checks
updateReportReplacing(reps, id, checks) ==
  [reps EXCEPT ![id] = [@ EXCEPT !.checks = checks, !.reviewedAt = NoTime]]

\* MongoDatabase.updateReport with {checks}: $set on the one document
updateReport(reps, id, checks) == [reps EXCEPT ![id].checks = checks]

\* ArticleWorker.processFactCheckJob once the call of performFactCheck
\* settled with the provider's response `resp`
factCheckSettled(resp) ==
  /\ wpc = "factcheck_net"
  /\ reports' = updateReport(reports, loc.reportId,
                             [factChecks |-> performFactCheck(resp),
                              quotedTexts |-> extractQuotes(loc.rawText)])
  /\ wpc' = "complete"
  /\ UNCHANGED << now, sub, sources, articles, jobs, batch, cur, loc,
                  initialTimer, intervalDue, cleanupDue, manual, reviews, inReview, faults, isProcessing, loops, intervals, sessions, issued, lastRes >>

\* ---------------------------------------------------------- review actor
\* POST /api/admin/articles/:articleId/approve and /reject
\* up to the answer of updateArticle
review(articleId, status) ==
  /\ reviews < MaxReviews
  /\ inReview = None
  /\ reviews' = reviews + 1
  /\ articleId \in 1..Len(articles)
  /\ articles' = setArticleStatus(articles, articleId, status)
  /\ inReview' = articleId
  /\ UNCHANGED << now, sub, sources, reports, jobs, wpc, batch, cur, loc,
                  initialTimer, intervalDue, cleanupDue, manual, faults, isProcessing, loops, intervals, sessions, issued, lastRes >>

\* the rest of the route: getReportByArticleId, then updateReport with the
\* review info
reviewReport ==
  /\ inReview # None
  /\ LET reportId == getReportByArticleId(reports, inReview) IN
       reports' = IF reportId = None THEN reports
                  ELSE [reports EXCEPT ![reportId].reviewedAt = DateNow]
  /\ inReview' = None
  /\ UNCHANGED << now, sub, sources, articles, jobs, wpc, batch, cur, loc,
                  initialTimer, intervalDue, cleanupDue, manual, reviews, faults, isProcessing, loops, intervals, sessions, issued, lastRes >>

\* --------------------------------------------------------- specification
\* MongoDatabase.initializeDefaultSources, with the rate limits scaled to
\* the scheduler's interval
InitSources(active) ==
  [s \in SourceIds |->
     [isActive |-> (s \in active), rssUrl |-> FeedUrl,
      rateLimitPerHour |-> IF s = 1 THEN 2 ELSE 100,
      lastFetchedAt |-> NoTime]]

InitWith(active) ==
  /\ now = 0
  /\ sub = 0
  /\ sources = InitSources(active)
  /\ articles = <<>>
  /\ reports = <<>>
  /\ jobs = <<>>
  /\ wpc = "sleep"
  /\ batch = <<>>
  /\ cur = NoJob
  /\ loc = NoLoc
  /\ initialTimer = TRUE
  /\ intervalDue = FetchIntervalMs
  /\ cleanupDue = DayMs
  /\ manual = 0
  /\ reviews = 0
  /\ inReview = None
  /\ faults = 0
  /\ isProcessing = TRUE
  /\ loops = <<>>
  /\ intervals = TRUE
  /\ sessions = NoSessions
  /\ issued = {}
  /\ lastRes = NoRes

Init == InitWith({1})
InitAll == InitWith(SourceIds)

\* the whole pipeline on the feeds of one URL, with manual fetches, review
\* requests and store outages
Next ==
  \/ Advance(InitialDelayMs)
  \/ scheduleNewsFetch(None)
  \/ processJobs
  \/ processJob
  \/ markCompleted
  \/ processFetchJob
  \/ \E ok \in BOOLEAN, xmlText \in XmlTexts(FeedDocs1) : fetchFromRss(ok, xmlText)
  \/ \E step \in {0, 1} : saveAndEnqueue(step)
  \/ processExtractionJob
  \/ \E ok \in BOOLEAN, text \in Pages : extractArticleContent(ok, text)
  \/ processHumanizationJob
  \/ \E resp \in GeminiResponses, reply \in SimilarityReplies(SimilarityEnds),
        outage \in {"none", "createJob", "store"} : humanizeSettled(resp, reply, outage)
  \/ processFactCheckJob
  \/ \E resp \in VerifierResponses : factCheckSettled(resp)
  \/ \E a \in 1..Len(articles), st \in {"published", "rejected"} : review(a, st)
  \/ reviewReport

Spec == Init /\ [][Next]_vars

\* the fetch and extraction stages on the feeds of two sources over two
\* URLs, while the text-generation provider is down
NextFetch ==
  \/ Advance(InitialDelayMs)
  \/ scheduleNewsFetch(None)
  \/ processJobs
  \/ processJob
  \/ markCompleted
  \/ processFetchJob
  \/ \E ok \in BOOLEAN, xmlText \in XmlTexts(FeedDocs2) : fetchFromRss(ok, xmlText)
  \/ \E step \in {0, 1} : saveAndEnqueue(step)
  \/ processExtractionJob
  \/ \E ok \in BOOLEAN, text \in Pages : extractArticleContent(ok, text)
  \/ processHumanizationJob
  \/ humanizeSettled(NoPayload("rejected"), SimilarityDown, "none")

SpecFetch == InitAll /\ [][NextFetch]_vars

\* the scheduler over several intervals with manual fetches, on feeds that
\* are empty or unreachable
NextSched ==
  \/ Advance(MaxPasses * FetchIntervalMs)
  \/ scheduleNewsFetch(None)
  \/ \E s \in SourceIds : createManualFetchJob(s)
  \/ processJobs
  \/ processJob
  \/ markCompleted
  \/ processFetchJob
  \/ \E ok \in BOOLEAN, xmlText \in XmlTexts({<<>>}) : fetchFromRss(ok, xmlText)
  \/ saveAndEnqueue(1)

SpecSched == Init /\ [][NextSched]_vars

\* the store an earlier run of the process left behind, the process starting
\* at time 0 (earlier times are negative): one article whose extraction
\* completed, fetched `age` ms before the start, and its humanize job still
\* pending; every source has been deactivated in the registry
StoredArticle(age) ==
  [url |-> "u1", title |-> TitleA, slug |-> generateSlug(TitleA, 0), sourceId |-> 1,
   status |-> "extracted", rawText |-> Text(MinTextLen, <<MinQuoteLen>>), metadata |-> NoError,
   fetchedAt |-> 0 - age]

StoredJobs ==
  createJob(setJobStatus(createJob(<<>>, "extract",
                                   [sourceId |-> None, articleId |-> 1], NoTime),
                         1, "completed"),
            "humanize", [sourceId |-> None, articleId |-> 1], NoTime)

InitRestart ==
  /\ now = 0
  /\ sub = 0
  /\ sources = InitSources({})
  /\ articles \in { << StoredArticle(age) >> : age \in {DayMs, RetentionDays * DayMs} }
  /\ reports = <<>>
  /\ jobs = StoredJobs
  /\ wpc = "sleep"
  /\ batch = <<>>
  /\ cur = NoJob
  /\ loc = NoLoc
  /\ initialTimer = TRUE
  /\ intervalDue = FetchIntervalMs
  /\ cleanupDue = DayMs
  /\ manual = 0
  /\ reviews = 0
  /\ inReview = None
  /\ faults = 0
  /\ isProcessing = TRUE
  /\ loops = <<>>
  /\ intervals = TRUE
  /\ sessions = NoSessions
  /\ issued = {}
  /\ lastRes = NoRes

FullPayload ==
  [kind |-> "json", tldr |-> Full, bullets |-> Full, humanizedHtml |-> Full,
   humanizedPlain |-> Full, confidence |-> 87 * Tenths]

\* the daily cleanup and the last two stages on the stored article
NextRetention ==
  \/ Advance(MaxDays * DayMs)
  \/ scheduleNewsFetch(None)
  \/ cleanupOldData
  \/ processJobs
  \/ processJob
  \/ markCompleted
  \/ processHumanizationJob
  \/ \E resp \in {NoPayload("rejected"), FullPayload} : humanizeSettled(resp, SimilarityDown, "none")
  \/ processFactCheckJob
  \/ \E resp \in VerifierResponses : factCheckSettled(resp)

SpecRetention == InitRestart /\ [][NextRetention]_vars

\* the fetch and extraction stages on two sources while every page is
\* unreachable or too short
ShortPages == { text \in Pages : text.len < MinTextLen }

NextShort ==
  \/ Advance(InitialDelayMs)
  \/ scheduleNewsFetch(None)
  \/ processJobs
  \/ processJob
  \/ markCompleted
  \/ processFetchJob
  \/ \E ok \in BOOLEAN, xmlText \in XmlTexts(FeedDocs2) : fetchFromRss(ok, xmlText)
  \/ \E step \in {0, 1} : saveAndEnqueue(step)
  \/ processExtractionJob
  \/ \E ok \in BOOLEAN, text \in ShortPages : extractArticleContent(ok, text)

SpecShort == InitAll /\ [][NextShort]_vars

\* one scheduling pass over a registry of two sources drawn from the
\* documents the admin route can create and a fetch can have updated: the
\* pass runs InitialDelayMs after the start, the last fetch being 61 s, 60 s
\* or 30 s before it, or none
Registries ==
  [SourceIds ->
     [isActive : BOOLEAN,
      rssUrl : {NullUrl, EmptyUrl, FeedUrl},
      rateLimitPerHour : {0, DefaultRate},
      lastFetchedAt : {NoTime, InitialDelayMs - 61000, InitialDelayMs - 60000,
                       InitialDelayMs - 30000}]]

InitPass ==
  /\ now = 0
  /\ sub = 0
  /\ sources \in Registries
  /\ articles = <<>>
  /\ reports = <<>>
  /\ jobs = <<>>
  /\ wpc = "sleep"
  /\ batch = <<>>
  /\ cur = NoJob
  /\ loc = NoLoc
  /\ initialTimer = TRUE
  /\ intervalDue = FetchIntervalMs
  /\ cleanupDue = DayMs
  /\ manual = 0
  /\ reviews = 0
  /\ inReview = None
  /\ faults = 0
  /\ isProcessing = TRUE
  /\ loops = <<>>
  /\ intervals = TRUE
  /\ sessions = NoSessions
  /\ issued = {}
  /\ lastRes = NoRes

NextPass ==
  \/ Advance(InitialDelayMs)
  \/ scheduleNewsFetch(None)

SpecPass == InitPass /\ [][NextPass]_vars

\* one pass of the scheduler over each such registry while the store may
\* reject one insert
NextOutage ==
  \/ Advance(InitialDelayMs)
  \/ \E rejected \in {None} \cup SourceIds : scheduleNewsFetch(rejected)

SpecOutage == InitPass /\ [][NextOutage]_vars

\* ------------------------------------------------- restart after a crash
\* the process stopped inside processHumanizationJob after createReport:
\* before updateArticle ("report"), before createJob ("article"), or before
\* processJob marked the job completed ("job")
CrashPoints == {"report", "article", "job"}

CrashedArticle(point, age) ==
  [StoredArticle(age) EXCEPT !.status = IF point = "report" THEN "extracted"
                                        ELSE "humanized"]

CrashedJobs(point) ==
  LET queue == setJobStatus(StoredJobs, 2, "processing") IN
    IF point = "job"
    THEN createJob(queue, "fact-check", [sourceId |-> None, articleId |-> 1], NoTime)
    ELSE queue

\* at time 0 the process is started again on the store the crash left
InitCrash ==
  /\ now = 0
  /\ sub = 0
  /\ sources = InitSources({})
  /\ \E point \in CrashPoints :
       /\ articles \in { << CrashedArticle(point, age) >> :
                            age \in {DayMs, RetentionDays * DayMs} }
       /\ jobs = CrashedJobs(point)
  /\ reports = << newReport(1, FullPayload, 50 * Tenths) >>
  /\ wpc = "sleep"
  /\ batch = <<>>
  /\ cur = NoJob
  /\ loc = NoLoc
  /\ initialTimer = TRUE
  /\ intervalDue = FetchIntervalMs
  /\ cleanupDue = DayMs
  /\ manual = 0
  /\ reviews = 0
  /\ inReview = None
  /\ faults = 0
  /\ isProcessing = TRUE
  /\ loops = <<>>
  /\ intervals = TRUE
  /\ sessions = NoSessions
  /\ issued = {}
  /\ lastRes = NoRes

\* the scheduler, the daily cleanup, a review request and the dispatcher
\* on the store after the restart
NextCrash ==
  \/ Advance(MaxDays * DayMs)
  \/ scheduleNewsFetch(None)
  \/ cleanupOldData
  \/ processJobs
  \/ processJob
  \/ markCompleted
  \/ processFactCheckJob
  \/ \E resp \in VerifierResponses : factCheckSettled(resp)
  \/ \E st \in {"published", "rejected"} : review(1, st)
  \/ reviewReport

SpecCrash == InitCrash /\ [][NextCrash]_vars

\* --------------------------------------------- worker started and stopped
\* a loop that has entered `while (this.isProcessing)` and awaits the answer
\* of getJobsByStatus
NewLoop == [pc |-> "getJobs", batch |-> <<>>, cur |-> NoJob]

\* ArticleWorker.start: returns at once while isProcessing is set, otherwise
\* sets it and enters the loop
start ==
  /\ Len(loops) < MaxLoops
  /\ ~isProcessing
  /\ isProcessing' = TRUE
  /\ loops' = Append(loops, NewLoop)
  /\ UNCHANGED << now, sub, sources, articles, reports, jobs, wpc, batch, cur, loc,
                  initialTimer, intervalDue, cleanupDue, manual, reviews, inReview,
                  faults, intervals, sessions, issued, lastRes >>

\* ArticleWorker.stop
stop ==
  /\ isProcessing
  /\ isProcessing' = FALSE
  /\ UNCHANGED << now, sub, sources, articles, reports, jobs, wpc, batch, cur, loc,
                  initialTimer, intervalDue, cleanupDue, manual, reviews, inReview,
                  faults, loops, intervals, sessions, issued, lastRes >>

\* ArticleWorker.processJobs of loop i: the answer of getJobsByStatus
loopProcessJobs(i) ==
  /\ loops[i].pc = "getJobs"
  /\ loops' = [loops EXCEPT ![i].batch = getJobsByStatus("pending", BatchSize),
                            ![i].pc = "loop"]
  /\ UNCHANGED << now, sub, sources, articles, reports, jobs, wpc, batch, cur, loc,
                  initialTimer, intervalDue, cleanupDue, manual, reviews, inReview,
                  faults, isProcessing, intervals, sessions, issued, lastRes >>

\* the next job of loop i's batch: ArticleWorker.processJob and
\* processFetchJob up to the feed request, or the sleep after the batch
loopProcessJob(i) ==
  /\ loops[i].pc = "loop"
  /\ IF loops[i].batch = <<>>
     THEN /\ loops' = [loops EXCEPT ![i].pc = "sleep"]
          /\ UNCHANGED jobs
     ELSE LET job == Head(loops[i].batch) IN
          /\ job.type = "fetch"
          /\ job.data.sourceId \in SourceIds
          /\ sources[job.data.sourceId].rssUrl \notin {NullUrl, EmptyUrl}
          /\ jobs' = setJobStatus(jobs, job.id, "processing")
          /\ loops' = [loops EXCEPT ![i].batch = Tail(@), ![i].cur = job,
                                    ![i].pc = "fetch_net"]
  /\ UNCHANGED << now, sub, sources, articles, reports, wpc, batch, cur, loc,
                  initialTimer, intervalDue, cleanupDue, manual, reviews, inReview,
                  faults, isProcessing, intervals, sessions, issued, lastRes >>

\* the feed request of loop i settles: not 2xx, or 2xx with a feed without
\* items, which saves nothing and enqueues nothing
loopFetchSettled(i, ok) ==
  /\ loops[i].pc = "fetch_net"
  /\ IF ok
     THEN /\ sources' = updateSourceLastFetch(sources, loops[i].cur.data.sourceId, DateNow)
          /\ jobs' = setJobStatus(jobs, loops[i].cur.id, "completed")
     ELSE /\ jobs' = markJobFailed(jobs, loops[i].cur, "HTTP error")
          /\ UNCHANGED sources
  /\ loops' = [loops EXCEPT ![i].cur = NoJob, ![i].pc = "loop"]
  /\ UNCHANGED << now, sub, articles, reports, wpc, batch, cur, loc,
                  initialTimer, intervalDue, cleanupDue, manual, reviews, inReview,
                  faults, isProcessing, intervals, sessions, issued, lastRes >>

\* the sleep of loop i ends and `while (this.isProcessing)` is evaluated
loopWake(i) ==
  /\ loops[i].pc = "sleep"
  /\ loops' = [loops EXCEPT ![i].pc = IF isProcessing THEN "getJobs" ELSE "done"]
  /\ UNCHANGED << now, sub, sources, articles, reports, jobs, wpc, batch, cur, loc,
                  initialTimer, intervalDue, cleanupDue, manual, reviews, inReview,
                  faults, isProcessing, intervals, sessions, issued, lastRes >>

\* after module load: start() has been called once, and the queue holds
\* two pending fetch jobs of the one active source
QueuedFetches ==
  createJob(createJob(<<>>, "fetch", [sourceId |-> 1, articleId |-> None], 0),
            "fetch", [sourceId |-> 1, articleId |-> None], 0)

InitWorker ==
  /\ now = 0
  /\ sub = 0
  /\ sources = InitSources({1})
  /\ articles = <<>>
  /\ reports = <<>>
  /\ jobs = QueuedFetches
  /\ wpc = "sleep"
  /\ batch = <<>>
  /\ cur = NoJob
  /\ loc = NoLoc
  /\ initialTimer = TRUE
  /\ intervalDue = FetchIntervalMs
  /\ cleanupDue = DayMs
  /\ manual = 0
  /\ reviews = 0
  /\ inReview = None
  /\ faults = 0
  /\ isProcessing = TRUE
  /\ loops = << NewLoop >>
  /\ intervals = TRUE
  /\ sessions = NoSessions
  /\ issued = {}
  /\ lastRes = NoRes

NextWorker ==
  \/ start
  \/ stop
  \/ \E i \in 1..Len(loops) : loopProcessJobs(i)
  \/ \E i \in 1..Len(loops) : loopProcessJob(i)
  \/ \E i \in 1..Len(loops), ok \in BOOLEAN : loopFetchSettled(i, ok)
  \/ \E i \in 1..Len(loops) : loopWake(i)

SpecWorker == InitWorker /\ [][NextWorker]_vars

\* ------------------------------------------------ store rejecting a call
\* the last two stages on the stored article while the store may reject
\* calls of the humanization stage
NextSwallow ==
  \/ processJobs
  \/ processJob
  \/ markCompleted
  \/ processHumanizationJob
  \/ \E resp \in GeminiResponses, reply \in SimilarityReplies(SimilarityEnds),
        outage \in {"none", "createJob", "store", "updateArticle"} :
        humanizeSettled(resp, reply, outage)
  \/ processFactCheckJob
  \/ \E resp \in VerifierResponses : factCheckSettled(resp)

SpecSwallow == InitRestart /\ [][NextSwallow]_vars

\* ------------------------------------------------------- unknown job type
\* the stored queue of the restart with a job of a type the switch does not
\* know, inserted before the pending humanize job
UnknownType == "publish"

QueueWithUnknown ==
  createJob(createJob(setJobStatus(createJob(<<>>, "extract",
                                             [sourceId |-> None, articleId |-> 1], NoTime),
                                   1, "completed"),
                      UnknownType, [sourceId |-> None, articleId |-> 1], NoTime),
            "humanize", [sourceId |-> None, articleId |-> 1], NoTime)

InitUnknown ==
  /\ now = 0
  /\ sub = 0
  /\ sources = InitSources({})
  /\ articles \in { << StoredArticle(age) >> : age \in {DayMs, RetentionDays * DayMs} }
  /\ reports = <<>>
  /\ jobs = QueueWithUnknown
  /\ wpc = "sleep"
  /\ batch = <<>>
  /\ cur = NoJob
  /\ loc = NoLoc
  /\ initialTimer = TRUE
  /\ intervalDue = FetchIntervalMs
  /\ cleanupDue = DayMs
  /\ manual = 0
  /\ reviews = 0
  /\ inReview = None
  /\ faults = 0
  /\ isProcessing = TRUE
  /\ loops = <<>>
  /\ intervals = TRUE
  /\ sessions = NoSessions
  /\ issued = {}
  /\ lastRes = NoRes

\* the dispatcher and the last two stages on that queue
NextUnknown ==
  \/ processJobs
  \/ processJob
  \/ unknownJobType
  \/ markCompleted
  \/ processHumanizationJob
  \/ \E resp \in GeminiResponses, reply \in SimilarityReplies(SimilarityEnds) :
        humanizeSettled(resp, reply, "none")
  \/ processFactCheckJob
  \/ \E resp \in VerifierResponses : factCheckSettled(resp)

SpecUnknown == InitUnknown /\ [][NextUnknown]_vars

\* ---------------------------------------------------------------- shutdown
\* ScheduledJobs.stop: clearInterval on the handles kept in `intervals`; the
\* setTimeout of the initial pass was never put there
stopScheduledJobs ==
  /\ intervals
  /\ intervals' = FALSE
  /\ UNCHANGED << now, sub, sources, articles, reports, jobs, wpc, batch, cur, loc,
                  initialTimer, intervalDue, cleanupDue, manual, reviews, inReview,
                  faults, isProcessing, loops, sessions, issued, lastRes >>

\* after module load, every source deactivated in the registry and two
\* fetch jobs left pending in the queue
InitStop ==
  /\ now = 0
  /\ sub = 0
  /\ sources = InitSources({})
  /\ articles = <<>>
  /\ reports = <<>>
  /\ jobs = QueuedFetches
  /\ wpc = "sleep"
  /\ batch = <<>>
  /\ cur = NoJob
  /\ loc = NoLoc
  /\ initialTimer = TRUE
  /\ intervalDue = FetchIntervalMs
  /\ cleanupDue = DayMs
  /\ manual = 0
  /\ reviews = 0
  /\ inReview = None
  /\ faults = 0
  /\ isProcessing = TRUE
  /\ loops = << NewLoop >>
  /\ intervals = TRUE
  /\ sessions = NoSessions
  /\ issued = {}
  /\ lastRes = NoRes

\* the timers of the scheduler and the loop of the worker while either may
\* be stopped; every feed request answers 2xx
NextStop ==
  \/ Advance(MaxDays * DayMs)
  \/ scheduleNewsFetch(None)
  \/ cleanupOldData
  \/ stopScheduledJobs
  \/ stop
  \/ \E i \in 1..Len(loops) : loopProcessJobs(i)
  \/ \E i \in 1..Len(loops) : loopProcessJob(i)
  \/ \E i \in 1..Len(loops) : loopFetchSettled(i, TRUE)
  \/ \E i \in 1..Len(loops) : loopWake(i)

SpecStop == InitStop /\ [][NextStop]_vars

\* ----------------------------------------------------------------- backlog
\* pending jobs beyond one batch of the dispatcher
MaxBacklog == 1

RECURSIVE ManualFetches(_, _)
ManualFetches(js, n) ==
  IF n = 0 THEN js
  ELSE ManualFetches(createJob(js, "fetch", [sourceId |-> 1, articleId |-> None], 0), n - 1)

\* the queue of the restart grown past one batch: a job of unknown type,
\* manual fetch jobs for source 1 up to the batch size and beyond it, then
\* the pending humanize job
Backlog ==
  createJob(ManualFetches(createJob(<<>>, UnknownType,
                                    [sourceId |-> None, articleId |-> 1], NoTime),
                          BatchSize - 1 + MaxBacklog),
            "humanize", [sourceId |-> None, articleId |-> 1], NoTime)

InitBacklog ==
  /\ now = 0
  /\ sub = 0
  /\ sources = InitSources({})
  /\ articles \in { << StoredArticle(age) >> : age \in {DayMs, RetentionDays * DayMs} }
  /\ reports = <<>>
  /\ jobs = Backlog
  /\ wpc = "sleep"
  /\ batch = <<>>
  /\ cur = NoJob
  /\ loc = NoLoc
  /\ initialTimer = TRUE
  /\ intervalDue = FetchIntervalMs
  /\ cleanupDue = DayMs
  /\ manual = 0
  /\ reviews = 0
  /\ inReview = None
  /\ faults = 0
  /\ isProcessing = TRUE
  /\ loops = <<>>
  /\ intervals = TRUE
  /\ sessions = NoSessions
  /\ issued = {}
  /\ lastRes = NoRes

\* the dispatcher and the stages on that queue; every external call returns
NextBacklog ==
  \/ processJobs
  \/ processJob
  \/ unknownJobType
  \/ markCompleted
  \/ processFetchJob
  \/ \E xmlText \in XmlTexts({<<>>}) : fetchFromRss(TRUE, xmlText)
  \/ saveAndEnqueue(1)
  \/ processHumanizationJob
  \/ \E resp \in GeminiResponses, reply \in SimilarityReplies(SimilarityEnds) :
        humanizeSettled(resp, reply, "none")
  \/ processFactCheckJob
  \/ \E resp \in VerifierResponses : factCheckSettled(resp)

\* the loop of ArticleWorker.start keeps cycling and every awaited call
\* settles
SpecBacklog == InitBacklog /\ [][NextBacklog]_vars /\ WF_vars(NextBacklog)

\* ------------------------------------------------------------------ sessions
\* lifetime of a session: setHours(getHours() + 24) on the login's time
SessionMs == 86400000

\* setHours works on local time: a change of the clock between the login
\* and the same wall-clock time of the next day shortens or lengthens the
\* 24 hours by one
DstShifts == {0 - HourMs, 0, HourMs}

\* the token of a request: none, or one of the tokens
NoToken == ""
Presented == Tokens \cup {NoToken}

\* the instants at which requests are served
AuthInstants ==
  { base + ms : base \in {0, SessionMs - HourMs, SessionMs, SessionMs + HourMs},
                ms \in {0, 1, 2} }

\* a session check that does not look at the expiry
SessionLiveNoExpiry(token) == sessions[token] # NoTime

\* requireAuth: !session || session.expires < new Date(), negated
SessionLive(token) == sessions[token] # NoTime /\ ~(sessions[token] < now)

\* time passes between two requests
elapse(t) ==
  /\ t > now
  /\ now' = t
  /\ UNCHANGED << sub, sources, articles, reports, jobs, wpc, batch, cur, loc,
                  initialTimer, intervalDue, cleanupDue, manual, reviews, inReview, faults, isProcessing, loops, intervals, sessions, issued, lastRes >>

\* POST /api/auth/google: `ok` is handleGoogleLogin returning a user; the
\* token is one generateSessionToken has not returned before
login(ok, token, shift) ==
  /\ token \notin issued
  /\ IF ok
     THEN /\ sessions' = [sessions EXCEPT ![token] = now + SessionMs + shift]
          /\ issued' = issued \cup {token}
          /\ lastRes' = [token |-> token, status |-> 200]
     ELSE /\ lastRes' = [token |-> NoToken, status |-> 500]
          /\ UNCHANGED << sessions, issued >>
  /\ UNCHANGED << now, sub, sources, articles, reports, jobs, wpc, batch, cur, loc,
                  initialTimer, intervalDue, cleanupDue, manual, reviews, inReview, faults, isProcessing, loops, intervals >>

\* requireAuth in front of a route that leaves the session map alone (GET
\* /api/auth/me): `found` is getUserProfile returning the user
requireAuth(token, found) ==
  /\ IF token = NoToken
     THEN /\ lastRes' = [token |-> token, status |-> 401]
          /\ UNCHANGED sessions
     ELSE IF ~SessionLive(token)
     THEN /\ sessions' = [sessions EXCEPT ![token] = NoTime]
          /\ lastRes' = [token |-> token, status |-> 401]
     ELSE /\ lastRes' = [token |-> token, status |-> IF found THEN 200 ELSE 401]
          /\ UNCHANGED sessions
  /\ UNCHANGED << now, sub, sources, articles, reports, jobs, wpc, batch, cur, loc,
                  initialTimer, intervalDue, cleanupDue, manual, reviews, inReview, faults, isProcessing, loops, intervals, issued >>

\* POST /api/auth/logout: requireAuth, then sessions.delete(token)
logout(token, found) ==
  /\ IF token = NoToken
     THEN /\ lastRes' = [token |-> token, status |-> 401]
          /\ UNCHANGED sessions
     ELSE IF ~SessionLive(token)
     THEN /\ sessions' = [sessions EXCEPT ![token] = NoTime]
          /\ lastRes' = [token |-> token, status |-> 401]
     ELSE IF ~found
     THEN /\ lastRes' = [token |-> token, status |-> 401]
          /\ UNCHANGED sessions
     ELSE /\ sessions' = [sessions EXCEPT ![token] = NoTime]
          /\ lastRes' = [token |-> token, status |-> 200]
  /\ UNCHANGED << now, sub, sources, articles, reports, jobs, wpc, batch, cur, loc,
                  initialTimer, intervalDue, cleanupDue, manual, reviews, inReview, faults, isProcessing, loops, intervals, issued >>

\* the authentication routes from the start of the server on
NextAuth ==
  \/ \E t \in AuthInstants : elapse(t)
  \/ \E ok \in BOOLEAN, token \in Tokens, shift \in DstShifts : login(ok, token, shift)
  \/ \E token \in Presented, found \in BOOLEAN : requireAuth(token, found)
  \/ \E token \in Presented, found \in BOOLEAN : logout(token, found)

SpecAuth == InitWith({}) /\ [][NextAuth]_vars

\* the numbers the two providers may put in their JSON, in tenths: below and
\* above 0..100, the ends of the range, and fractions on both sides of a half
Confidences == {0 - 5 * Tenths, 0, 874, 875, 100 * Tenths, 150 * Tenths}
Similarities == {0 - 5 * Tenths, 0, 4, 874, 875, 100 * Tenths, 150 * Tenths}

ScoredPayloads == { [FullPayload EXCEPT !.confidence = c] : c \in Confidences }

\* the last two stages on the stored article, over the providers' numbers
NextScores ==
  \/ processJobs
  \/ processJob
  \/ markCompleted
  \/ processHumanizationJob
  \/ \E resp \in ScoredPayloads, reply \in SimilarityReplies(Similarities) :
        humanizeSettled(resp, reply, "none")
  \/ processFactCheckJob
  \/ \E resp \in VerifierResponses : factCheckSettled(resp)

SpecScores == InitRestart /\ [][NextScores]_vars

\* ================================================================ claims
JobIds == 1..Len(jobs)
ArticleIds == 1..Len(articles)
ReportIds == 1..Len(reports)
Returned == {"sleep", "loop"}      \* the loop is between two jobs

\* C1: for every job, attempts never exceeds maxAttempts (3 when unset), and
\* a job whose attempts reached maxAttempts is failed.
C1_AttemptsBounded ==
  \A j \in JobIds :
    /\ jobs[j].attempts <= MaxAttemptsOf(jobs[j])
    /\ jobs[j].attempts >= MaxAttemptsOf(jobs[j]) => jobs[j].status = "failed"

\* a job has used up its three attempts while another step of the pipeline
\* had succeeded before
C1_Witness ==
  \E j \in JobIds :
    /\ jobs[j].attempts = DefaultMaxAttempts
    /\ jobs[j].status = "failed"
    /\ jobs[j].type = "humanize"

\* C2: when a stage raises an error for the job being processed, the job's
\* attempts grows by exactly 1, an error message is recorded, and the status
\* becomes pending if the new attempts is below maxAttempts, failed otherwise.
C2_FailureHandling ==
  [][ (wpc \notin Returned /\ wpc # "complete" /\ wpc' \in Returned) =>
        LET before == jobs[cur.id]
            after == jobs'[cur.id]
        IN  /\ after.attempts = before.attempts + 1
            /\ after.error # NoError
            /\ after.status = IF after.attempts < MaxAttemptsOf(before)
                              THEN "pending" ELSE "failed" ]_vars

\* a job that failed once is back in the queue with its error
C2_Witness ==
  \E j \in JobIds :
    /\ jobs[j].attempts = 1
    /\ jobs[j].status = "pending"
    /\ jobs[j].error # NoError

\* C3: a failed job never changes again and is never handed to a stage again.
C3_FailedIsTerminal ==
  [][ \A j \in JobIds :
        jobs[j].status = "failed" => (jobs'[j] = jobs[j] /\ cur'.id # j) ]_vars

\* the dispatcher processes another job while a failed job is in the store
C3_Witness ==
  \E j \in JobIds :
    /\ jobs[j].status = "failed"
    /\ cur.id \notin {None, j}
    /\ wpc \in {"extract_net", "humanize_net"}

\* C4: the page request, the text-generation call and the verification call
\* are made exactly when the job's article is found in the prerequisite
\* status (fetched; extracted with rawText; humanized with rawText and a
\* Report); otherwise the stage ends with an error on the job and no call.
PrerequisiteHolds(stage, a) ==
  /\ a \in ArticleIds
  /\ CASE stage = "extract" -> articles[a].status = "fetched"
       [] stage = "humanize" -> /\ articles[a].status = "extracted"
                                /\ articles[a].rawText # NoText
       [] stage = "factcheck" -> /\ articles[a].status = "humanized"
                                 /\ articles[a].rawText # NoText
                                 /\ \E r \in ReportIds : reports[r].articleId = a
       [] OTHER -> FALSE

ExternalCall(stage) ==
  CASE stage = "extract" -> "extract_net"
    [] stage = "humanize" -> "humanize_net"
    [] stage = "factcheck" -> "factcheck_net"
    [] OTHER -> "none"

C4_StagePrerequisites ==
  [][ \A stage \in {"extract", "humanize", "factcheck"} :
        /\ (wpc # ExternalCall(stage) /\ wpc' = ExternalCall(stage)) =>
              (wpc = stage /\ PrerequisiteHolds(stage, cur.data.articleId))
        /\ (wpc = stage /\ wpc' # stage
              /\ ~PrerequisiteHolds(stage, cur.data.articleId)) =>
              /\ wpc' \in Returned
              /\ jobs'[cur.id].error # NoError
              /\ jobs'[cur.id].attempts = jobs[cur.id].attempts + 1
              /\ articles' = articles
              /\ reports' = reports ]_vars

\* a fact-check job found its article no longer humanized and errored, after
\* extraction and humanization had run on their prerequisites
C4_Witness ==
  \E j \in JobIds :
    /\ jobs[j].type = "fact-check"
    /\ jobs[j].error = "Article or report not found"
    /\ reports # <<>>

\* C5: when the fetch stage has saved its articles, every article created by
\* that run gets an extract job carrying its id, enqueued by that run.
C5_NewArticlesGetExtractJobs ==
  [][ (wpc = "fetch_save" /\ wpc' = "complete") =>
        \A a \in (Len(articles) + 1)..Len(articles') :
          \E j \in (Len(jobs) + 1)..Len(jobs') :
            /\ jobs'[j].type = "extract"
            /\ jobs'[j].data.articleId = a ]_vars

\* C6 (as stated): any two fetch jobs enqueued for one source are at least
\* 3600/N seconds apart.
C6_FetchJobsSpaced ==
  \A i \in JobIds, j \in JobIds :
    ( /\ i < j
      /\ jobs[i].type = "fetch"
      /\ jobs[j].type = "fetch"
      /\ jobs[i].data.sourceId = jobs[j].data.sourceId ) =>
    (jobs[j].scheduledFor - jobs[i].scheduledFor)
       * RateOf(sources[jobs[i].data.sourceId]) >= HourMs

\* C6 (amended): a scheduler pass enqueues a fetch job for a source only if
\* the source has no recorded lastFetchedAt or at least 3600/N seconds have
\* passed since it; hence the new job is at least 3600/N seconds after every
\* fetch job of that source that has completed.
SchedulerPass == initialTimer' # initialTimer \/ intervalDue' # intervalDue

C6_SchedulerRespectsLastFetch ==
  [][ SchedulerPass =>
        \A j \in (Len(jobs) + 1)..Len(jobs') :
          LET s == jobs'[j].data.sourceId
              t == jobs'[j].scheduledFor
          IN  /\ jobs'[j].type = "fetch"
              /\ \/ sources[s].lastFetchedAt = NoTime
                 \/ (t - sources[s].lastFetchedAt) * RateOf(sources[s]) >= HourMs
              /\ \A i \in JobIds :
                   ( /\ jobs[i].type = "fetch"
                     /\ jobs[i].data.sourceId = s
                     /\ jobs[i].status = "completed" ) =>
                   (t - jobs[i].scheduledFor) * RateOf(sources[s]) >= HourMs ]_vars

\* a pass enqueued a fetch job for a source whose earlier fetch had been
\* recorded, once the interval had elapsed
C6_Witness ==
  \E i \in JobIds, j \in JobIds :
    /\ i < j
    /\ jobs[i].type = "fetch" /\ jobs[i].data.sourceId = 1
    /\ jobs[i].status = "completed" /\ jobs[i].scheduledFor = 0
    /\ jobs[j].type = "fetch" /\ jobs[j].data.sourceId = 1
    /\ jobs[j].scheduledFor = FetchIntervalMs
    /\ sources[1].lastFetchedAt = 0

\* C7: at most one Article exists per URL.
C7_OneArticlePerUrl ==
  \A i \in ArticleIds, j \in ArticleIds :
    articles[i].url = articles[j].url => i = j

\* a fetch run met an entry whose URL had an Article from another source's
\* run, and an entry repeated inside its own feed
C7_Witness ==
  /\ wpc = "complete"
  /\ cur.type = "fetch"
  /\ Len(loc.items) = 2
  /\ loc.items[1].url = loc.items[2].url
  /\ \E a \in ArticleIds :
       /\ articles[a].url = loc.items[1].url
       /\ articles[a].sourceId # loc.sourceId

\* C8: no two Articles have the same slug.
C8_SlugUnique ==
  \A i \in ArticleIds, j \in ArticleIds :
    articles[i].slug = articles[j].slug => i = j

\* a fetch run parsed two entries with the same title and different URLs and
\* drew the same slug for both: the second one has no Article
C8_Witness ==
  /\ wpc = "complete"
  /\ cur.type = "fetch"
  /\ Len(loc.items) = 2
  /\ loc.items[1].url # loc.items[2].url
  /\ loc.items[1].title = loc.items[2].title
  /\ getArticleByUrl(articles, loc.items[1].url) # None
  /\ getArticleByUrl(articles, loc.items[2].url) = None

\* C9: at most one Report exists per Article.
C9_OneReportPerArticle ==
  \A i \in ReportIds, j \in ReportIds :
    reports[i].articleId = reports[j].articleId => i = j

\* a humanize job was retried after the attempt that had persisted the
\* Report, and the insert of a second Report was refused
C9_Witness ==
  \E j \in JobIds :
    /\ jobs[j].type = "humanize"
    /\ jobs[j].error = "E11000 duplicate key error"
    /\ Len(reports) = 1

\* C10: every Report has tldr, bullets and humanizedHtml.
C10_ReportComplete ==
  \A r \in ReportIds :
    /\ reports[r].tldr = Full
    /\ reports[r].bullets # Missing
    /\ reports[r].humanizedHtml = Full

\* a Report was created by the attempt that followed a refused response
C10_Witness ==
  \E j \in JobIds :
    /\ jobs[j].type = "humanize"
    /\ jobs[j].status = "completed"
    /\ jobs[j].error = "Failed to humanize article"
    /\ reports # <<>>

\* C11: when the text-generation capability fails, returns no payload or
\* returns a payload without tldr, bullets or humanizedHtml (the fields the
\* stage validates), the humanize job goes to failure handling and nothing
\* else changes: no Report is created, the article keeps the status and the
\* rawText it had (extracted, unless the review actor has changed it in the
\* meantime), and no job is enqueued.
Incomplete(resp) ==
  \/ resp.kind # "json"
  \/ resp.tldr = Missing
  \/ resp.bullets = Missing
  \/ resp.humanizedHtml = Missing

C12_NoRawTextNoCall ==
  [][ ( /\ wpc = "humanize"
        /\ wpc' # "humanize"
        /\ cur.data.articleId \in ArticleIds
        /\ articles[cur.data.articleId].rawText = NoText ) =>
      /\ wpc' \in Returned
      /\ jobs'[cur.id].error = "Article not found or missing raw text"
      /\ jobs'[cur.id].attempts = jobs[cur.id].attempts + 1
      /\ jobs'[cur.id].status \in {"pending", "failed"}
      /\ articles' = articles
      /\ reports' = reports ]_vars

\* the cleanup purged the rawText of an extracted article, and its humanize
\* job then failed on the missing text
C12_Witness ==
  \E j \in JobIds :
    /\ jobs[j].type = "humanize"
    /\ jobs[j].error = "Article not found or missing raw text"
    /\ jobs[j].attempts = 1
    /\ articles[jobs[j].data.articleId].status = "extracted"
    /\ articles[jobs[j].data.articleId].rawText = NoText
    /\ cleanupDue > DayMs

\* C13: when the verification provider throws or returns nothing, the
\* fact-check job of a humanized article with a Report and rawText still ends
\* completed, the Report's checks.factChecks being the empty list and
\* checks.quotedTexts the quotes extracted locally from the rawText.
C13_FactCheckSurvivesProvider ==
  [][ /\ \A resp \in VerifierResponses :
           (resp.kind # "json" /\ factCheckSettled(resp)) =>
             /\ wpc' = "complete"
             /\ reports'[loc.reportId].checks.factChecks = <<>>
             /\ reports'[loc.reportId].checks.quotedTexts = extractQuotes(loc.rawText)
             /\ Len(reports'[loc.reportId].checks.quotedTexts) <= MaxQuotes
             /\ jobs' = jobs
      /\ (wpc = "complete" /\ wpc' # "complete") =>
             /\ jobs'[cur.id].status = "completed"
             /\ jobs'[cur.id].attempts = jobs[cur.id].attempts ]_vars

\* a fact-check job is completed, its Report holding no fact checks and the
\* one long quoted passage of the article's text
C13_Witness ==
  \E j \in JobIds, r \in ReportIds :
    /\ jobs[j].type = "fact-check"
    /\ jobs[j].status = "completed"
    /\ jobs[j].attempts = 0
    /\ reports[r].articleId = jobs[j].data.articleId
    /\ reports[r].checks.factChecks = <<>>
    /\ reports[r].checks.quotedTexts = << MinQuoteLen >>

\* C14: if every extraction attempt for an article yields less than 200
\* characters of visible text (or no page), then from the first attempt of
\* its extract job on the article's status is failed with the error in its
\* metadata, the extract job is failed once it has made maxAttempts attempts
\* (and never makes more), and no humanize job is enqueued.
ExtractJobOf(j, a) ==
  /\ j \in JobIds
  /\ a \in ArticleIds
  /\ jobs[j].type = "extract"
  /\ jobs[j].data.articleId = a

C14_ShortPagesEndFailed ==
  /\ \A j \in JobIds, a \in ArticleIds :
       (ExtractJobOf(j, a) /\ jobs[j].attempts >= 1) =>
         /\ articles[a].status = "failed"
         /\ articles[a].metadata # NoError
         /\ articles[a].rawText = NoText
         /\ jobs[j].attempts <= DefaultMaxAttempts
         /\ jobs[j].attempts = DefaultMaxAttempts => jobs[j].status = "failed"
  /\ \A j \in JobIds : jobs[j].type # "humanize"

\* the extract job of an article whose page was too short has used its three
\* attempts and both are failed
C14_Witness ==
  \E j \in JobIds, a \in ArticleIds :
    /\ ExtractJobOf(j, a)
    /\ jobs[j].status = "failed"
    /\ jobs[j].attempts = DefaultMaxAttempts
    /\ articles[a].status = "failed"
    /\ articles[a].metadata = "Extracted text too short or empty"

\* C15: an extraction failure (text too short, non-2xx, network error) is
\* retried: while the extract job's attempts is below maxAttempts, the next
\* attempt of the job requests the page again (and a page of at least 200
\* characters then moves the article to extracted with a humanize job).
ExtractionErrors == {"Extracted text too short or empty", "HTTP error"}

C15_ExtractionRetried ==
  [][ ( /\ wpc = "extract"
        /\ wpc' # "extract"
        /\ jobs[cur.id].error \in ExtractionErrors
        /\ jobs[cur.id].attempts < MaxAttemptsOf(jobs[cur.id]) ) =>
      wpc' = "extract_net" ]_vars

\* C16: a stage error in one job of a batch is caught for that job and
\* routed to failure handling; the loop keeps running, and every later job
\* of the batch is still processed in that cycle, in the order of the batch.
StageThrows == wpc \notin Returned /\ wpc # "complete" /\ wpc' \in Returned

C16_BatchSurvivesStageError ==
  [][ /\ StageThrows =>
           /\ jobs'[cur.id].attempts = jobs[cur.id].attempts + 1
           /\ jobs'[cur.id].error # NoError
           /\ batch' = batch
           /\ wpc' = IF batch # <<>> THEN "loop" ELSE "sleep"
      /\ (wpc = "loop" /\ wpc' # "loop") =>
           /\ batch # <<>>
           /\ cur' = Head(batch)
           /\ batch' = Tail(batch)
           /\ wpc' = StageOf(Head(batch).type)
           /\ jobs'[Head(batch).id].status = "processing"
      /\ batch' # batch => (wpc = "sleep" \/ wpc = "loop") ]_vars

\* the first job of a batch of two has failed and the second job of the
\* same batch is being processed
C16_Witness ==
  /\ cur.id = 2
  /\ wpc = "fetch_net"
  /\ jobs[1].attempts = 1
  /\ jobs[1].status = "pending"
  /\ jobs[1].error # NoError
  /\ jobs[2].attempts = 0
  /\ jobs[2].status = "processing"

\* C17: no job is silently dropped: every job that has had a failed attempt
\* (attempts > 0, whether now pending, processing, failed or completed)
\* carries a non-empty error string, and every job ever created stays in the
\* Job Store, with its type and data, in one of the statuses pending,
\* processing, completed, failed.
C17_NoJobDropped ==
  /\ [](\A j \in JobIds :
          /\ jobs[j].status \in {"pending", "processing", "completed", "failed"}
          /\ jobs[j].attempts > 0 => jobs[j].error # NoError)
  /\ [][ /\ Len(jobs') >= Len(jobs)
         /\ \A j \in JobIds :
              /\ jobs'[j].type = jobs[j].type
              /\ jobs'[j].data = jobs[j].data ]_vars

\* after a cleanup pass the store still holds a completed job that had
\* failed once, with the error of that attempt
C17_Witness ==
  /\ cleanupDue > DayMs
  /\ \E j \in JobIds :
       /\ jobs[j].status = "completed"
       /\ jobs[j].attempts = 1
       /\ jobs[j].error = "Failed to humanize article"

\* C18 (as stated): a source's lastFetchedAt is changed only by a fetch run
\* whose feed retrieval succeeded, and it is set after the run's articles
\* are saved.
C18_LastFetchSetAfterSave ==
  [][ sources' # sources =>
        /\ cur.type = "fetch"
        /\ wpc = "fetch_save"
        /\ wpc' = "complete" ]_vars

\* C18 (amended): a source's lastFetchedAt is changed only by a fetch run of
\* that source whose feed retrieval succeeded; it is set to the current time
\* when the feed has been retrieved and parsed, before the run's articles
\* are saved and whatever the number of entries; a run whose retrieval
\* fails, and the saving itself, leave every source unchanged.
C18_LastFetchSetOnRetrieval ==
  [][ /\ (wpc = "fetch_net" /\ wpc' = "fetch_save") =>
           /\ sources' = [sources EXCEPT ![loc.sourceId].lastFetchedAt = DateNow]
           /\ cur.data.sourceId = loc.sourceId
           /\ articles' = articles
      /\ ~(wpc = "fetch_net" /\ wpc' = "fetch_save") => sources' = sources
      /\ (wpc = "fetch_net" /\ wpc' # "fetch_net") => wpc' \in Returned \cup {"fetch_save"} ]_vars

\* a run has recorded lastFetchedAt for its source while the entries of its
\* feed are not saved yet
C18_Witness ==
  /\ wpc = "fetch_save"
  /\ loc.items # <<>>
  /\ sources[loc.sourceId].lastFetchedAt = DateNow
  /\ getArticleByUrl(articles, loc.items[1].url) = None

\* C19: in one scheduler pass a fetch job is enqueued for a source exactly
\* when the source is active, has a feed URL, and has never been fetched or
\* now - lastFetchedAt >= 3600000 / rateLimitPerHour ms (the rate being 60
\* when unset); inactive sources and sources without a feed URL get no job.
HasFeedUrl(source) == source.rssUrl \notin {NullUrl, EmptyUrl}

Eligible(source, t) ==
  /\ source.isActive
  /\ HasFeedUrl(source)
  /\ \/ source.lastFetchedAt = NoTime
     \/ (t - source.lastFetchedAt) * RateOf(source) >= HourMs

C19_PassEnqueuesExactlyEligible ==
  [][ SchedulerPass =>
        \A s \in SourceIds :
          Eligible(sources[s], DateNow) <=>
            \E j \in (Len(jobs) + 1)..Len(jobs') :
              /\ jobs'[j].type = "fetch"
              /\ jobs'[j].data.sourceId = s
              /\ jobs'[j].status = "pending" ]_vars

\* C20: once an article's status is failed, published or rejected, no
\* pipeline stage changes its status again, a stage that was in flight for
\* the article when the review actor set published or rejected included.
TerminalStatuses == {"failed", "published", "rejected"}

C20_TerminalArticleStatus ==
  [][ \A a \in ArticleIds :
        ( /\ articles[a].status \in TerminalStatuses
          /\ articles'[a].status # articles[a].status ) =>
        reviews' # reviews ]_vars

\* C21: in every reachable state a Report whose reviewedAt is set belongs to
\* an article whose status is published or rejected, whatever the
\* interleaving of approve / reject requests with the stages in flight.
C21_ReviewedMeansDecided ==
  \A r \in ReportIds :
    reports[r].reviewedAt # NoTime =>
      articles[reports[r].articleId].status \in {"published", "rejected"}

\* C22: in every reachable state an article carries rawText only while its
\* status is extracted or humanized; an article that is fetched, failed,
\* published or rejected has none.
C22_RawTextOnlyWhileProcessing ==
  \A a \in ArticleIds :
    articles[a].rawText # NoText =>
      articles[a].status \in {"extracted", "humanized"}

\* C23: every change of an article's status follows the order
\* fetched -> extracted -> humanized -> (published | rejected), or goes to
\* failed from fetched or extracted; published and rejected are entered
\* only from humanized and no article moves to an earlier status.
StatusOrder ==
  { <<"fetched", "extracted">>, <<"extracted", "humanized">>,
    <<"humanized", "published">>, <<"humanized", "rejected">>,
    <<"fetched", "failed">>, <<"extracted", "failed">> }

C23_StatusFollowsOrder ==
  [][ \A a \in ArticleIds :
        articles'[a].status # articles[a].status =>
          << articles[a].status, articles'[a].status >> \in StatusOrder ]_vars

\* C24: a fetch job whose feed request fails (network error, non-2xx) or
\* whose response text cannot be parsed as a feed does not go on to
\* completion on that attempt: the error reaches failure handling, attempts
\* grows by one and no extract job is enqueued.
RetrievalFailures(docs) ==
  { r \in [ok : BOOLEAN, xmlText : XmlTexts(docs)] : ~r.ok \/ ~r.xmlText.wellFormed }

FetchAttemptFails ==
  /\ jobs'[cur.id].attempts = jobs[cur.id].attempts + 1
  /\ jobs'[cur.id].status # "completed"
  /\ wpc' \notin {"fetch_save", "complete"}
  /\ Len(jobs') = Len(jobs)

C24_BadFeedFailsTheJob ==
  [][ \A r \in RetrievalFailures(FeedDocs1 \cup FeedDocs2) :
        fetchFromRss(r.ok, r.xmlText) => FetchAttemptFails ]_vars

\* C25: a fact-check job enqueued by a successful humanization never ends
\* failed, whatever the verification provider returns and however approve /
\* reject requests interleave with the worker.
C25_FactCheckNeverFails ==
  \A j \in JobIds : jobs[j].type = "fact-check" => jobs[j].status # "failed"

\* C26: every Report stored by the humanization stage has aiScore and
\* similarityScore both integers within 0..100, whatever confidence and
\* similarity the providers return; when the similarity provider fails the
\* Report is stored with similarityScore 50.
C26_ScoresInRange ==
  /\ [](\A r \in ReportIds :
          /\ reports[r].aiScore \in 0..100
          /\ reports[r].similarityScore \in 0..100)
  /\ [][ ( /\ wpc = "humanize_net"
           /\ \E resp \in ScoredPayloads : humanizeSettled(resp, SimilarityDown, "none") ) =>
           /\ Len(reports') = Len(reports) + 1
           /\ reports'[Len(reports')].similarityScore = 50
           /\ wpc' = "complete" ]_vars

\* C27: after any sequence of start() and stop() calls on the worker, at
\* most one dispatcher loop is active and at most one stage execution is in
\* flight, so no job is executed by two loops at once.
ActiveLoops == { i \in 1..Len(loops) : loops[i].pc # "done" }
InFlight == { i \in 1..Len(loops) : loops[i].pc = "fetch_net" }

C27_OneLoopOneStage ==
  /\ Cardinality(ActiveLoops) <= 1
  /\ Cardinality(InFlight) <= 1
  /\ \A i, k \in InFlight : loops[i].cur.id = loops[k].cur.id => i = k

\* C28: a job that the stopped process left in status processing is eligible
\* for retry after the restart: a dispatcher cycle that reads the queue takes
\* it into its batch (the queue being shorter than one batch).  Between
\* cycles the single dispatcher has no job of its own in processing.
Orphans == { j \in JobIds : jobs[j].status = "processing" }

C28_OrphanPickedUp ==
  [][ (wpc = "sleep" /\ wpc' = "loop") =>
        \A j \in Orphans : \E k \in 1..Len(batch') : batch'[k].id = j ]_vars

\* C29: re-running an extract or humanize job on an article that has already
\* advanced past the stage's input status changes nothing but the job: the
\* precondition check fails, the article with its rawText and the Reports are
\* unchanged, no successor job is enqueued, and the job is queued again for
\* a retry until the attempt that reaches maxAttempts ends it failed.
Past(stage) ==
  CASE stage = "extract" -> {"extracted", "humanized", "published", "rejected"}
    [] stage = "humanize" -> {"humanized", "published", "rejected"}
    [] OTHER -> {}

Rerun(stage) ==
  /\ wpc = stage
  /\ wpc' # stage
  /\ cur.data.articleId \in ArticleIds
  /\ articles[cur.data.articleId].status \in Past(stage)

C29_RerunIsNoOp ==
  [][ \A stage \in {"extract", "humanize"} :
        Rerun(stage) =>
          /\ wpc' \in Returned
          /\ articles' = articles
          /\ reports' = reports
          /\ Len(jobs') = Len(jobs)
          /\ jobs'[cur.id].error # NoError
          /\ jobs'[cur.id].attempts = jobs[cur.id].attempts + 1
          /\ jobs'[cur.id].status =
               IF jobs'[cur.id].attempts >= DefaultMaxAttempts THEN "failed"
               ELSE "pending" ]_vars

\* a humanize job was run again on its article after the stage had stored
\* the Report and set the article humanized; it ended failed on the
\* precondition after three attempts, and there is still one Report
C29_Witness ==
  \E j \in JobIds :
    /\ jobs[j].type = "humanize"
    /\ jobs[j].status = "failed"
    /\ jobs[j].attempts = DefaultMaxAttempts
    /\ jobs[j].error = "Article not found or missing raw text"
    /\ articles[jobs[j].data.articleId].status = "humanized"
    /\ articles[jobs[j].data.articleId].rawText # NoText
    /\ Len(reports) = 1
    /\ \A k \in JobIds : jobs[k].type # "fact-check"

\* C30: in one scheduler pass, the Job Store rejecting the enqueue for one
\* source does not keep the other eligible sources of the pass from getting
\* their fetch jobs.
C30_SourcesIsolated ==
  [][ \A rejected \in SourceIds :
        (HasFeedUrl(sources[rejected]) /\ scheduleNewsFetch(rejected)) =>
          \A s \in SourceIds \ {rejected} :
            Eligible(sources[s], DateNow) =>
              \E j \in (Len(jobs) + 1)..Len(jobs') :
                /\ jobs'[j].type = "fetch"
                /\ jobs'[j].data.sourceId = s
                /\ jobs'[j].status = "pending" ]_vars

\* C31: once stop() was called on the scheduler, no scheduling pass and no
\* cleanup pass runs any more, the initial delayed pass included; once
\* stop() was called on the worker no new dispatcher cycle starts, while a
\* stage already in flight still settles.
CleanupPass == cleanupDue' # cleanupDue

NewCycle == \E i \in 1..Len(loops) : loops[i].pc # "getJobs" /\ loops'[i].pc = "getJobs"

C31_StopClearsTriggers ==
  [][ /\ ~intervals => (~SchedulerPass /\ ~CleanupPass)
      /\ ~isProcessing => ~NewCycle ]_vars

\* C32: a job whose type is not fetch, extract, humanize or fact-check does
\* not stop the dispatcher loop: once taken from the batch it goes straight
\* to failure handling, no stage runs for it, no article, report or source
\* changes, its error names the unknown type, it never ends completed, and
\* the attempt that reaches maxAttempts ends it failed.
KnownTypes == {"fetch", "extract", "humanize", "fact-check"}

C32_UnknownTypeFailsOnlyTheJob ==
  /\ []( \A j \in JobIds :
           jobs[j].type \notin KnownTypes =>
             /\ jobs[j].status # "completed"
             /\ jobs[j].attempts >= DefaultMaxAttempts => jobs[j].status = "failed" )
  /\ [][ (cur.type \notin KnownTypes /\ cur.id # None /\ wpc' # wpc) =>
           /\ wpc' \in Returned
           /\ articles' = articles
           /\ reports' = reports
           /\ sources' = sources
           /\ Len(jobs') = Len(jobs)
           /\ jobs'[cur.id].error = "Unknown job type"
           /\ jobs'[cur.id].attempts = jobs[cur.id].attempts + 1 ]_vars

\* the job of unknown type is failed after three attempts with its error,
\* and the humanize job behind it in the queue has completed
C32_Witness ==
  \E j, k \in JobIds :
    /\ jobs[j].type = UnknownType
    /\ jobs[j].status = "failed"
    /\ jobs[j].attempts = DefaultMaxAttempts
    /\ jobs[j].error = "Unknown job type"
    /\ j < k
    /\ jobs[k].type = "humanize"
    /\ jobs[k].status = "completed"

\* C33: every job is created pending with zero attempts; a humanize job for
\* article A is enqueued only when A's rawText is stored and A is extracted,
\* a fact-check job for A only when A's Report is stored and A is humanized;
\* a job is processing while its stage runs and becomes completed only from
\* the point where its stage has returned without error.
NewJobs == (Len(jobs) + 1)..Len(jobs')

C33_JobsFollowSuccess ==
  /\ [](cur.id # None => jobs[cur.id].status = "processing")
  /\ [][ /\ \A j \in NewJobs :
              /\ jobs'[j].status = "pending"
              /\ jobs'[j].attempts = 0
              /\ jobs'[j].type = "humanize" =>
                   /\ articles'[jobs'[j].data.articleId].status = "extracted"
                   /\ articles'[jobs'[j].data.articleId].rawText # NoText
              /\ jobs'[j].type = "fact-check" =>
                   /\ articles'[jobs'[j].data.articleId].status = "humanized"
                   /\ \E r \in 1..Len(reports') :
                        reports'[r].articleId = jobs'[j].data.articleId
         /\ \A j \in JobIds :
              (jobs[j].status # "completed" /\ jobs'[j].status = "completed") =>
                (wpc = "complete" /\ cur.id = j) ]_vars

\* C34: no step of a pipeline stage writes the review fields of a Report (a
\* new Report has none set), and the step of the Fact-Check Stage that
\* stores its results changes nothing of the Report but its checks and
\* nothing of any article.
ReviewStep == reviews' # reviews \/ inReview' # inReview

SameButChecks(r, q) == [r EXCEPT !.checks = q.checks] = q

C34_StagesLeaveReviewFields ==
  [][ /\ ~ReviewStep =>
           /\ \A r \in ReportIds : reports'[r].reviewedAt = reports[r].reviewedAt
           /\ \A r \in (Len(reports) + 1)..Len(reports') : reports'[r].reviewedAt = NoTime
      /\ (wpc = "factcheck_net" /\ wpc' # "factcheck_net") =>
           /\ Len(reports') = Len(reports)
           /\ \A r \in ReportIds : SameButChecks(reports[r], reports'[r])
           /\ \A r \in ReportIds \ {loc.reportId} : reports'[r] = reports[r]
           /\ articles' = articles ]_vars

\* the fact-check stage stored its results in a Report that the review
\* actor had marked reviewed while the verification call was in flight
C34_Witness ==
  \E r \in ReportIds :
    /\ reports[r].reviewedAt # NoTime
    /\ reports[r].checks.quotedTexts # <<>>
    /\ articles[reports[r].articleId].status \in {"published", "rejected"}
    /\ articles[reports[r].articleId].rawText # NoText

\* C35: an article in status fetched is still going to be extracted: once
\* no job is pending or processing any more, so that the dispatcher has
\* nothing left to run, no article is in status fetched.
Unfinished == { j \in JobIds : jobs[j].status \in {"pending", "processing"} }

C35_FetchedArticlesLeave ==
  (Unfinished = {}) => \A a \in ArticleIds : articles[a].status # "fetched"

\* C36: no two extract jobs carry the same article id, and a fetch run
\* enqueues extract jobs only for articles that it created itself.
ExtractJobsOf(a) ==
  { j \in JobIds : jobs[j].type = "extract" /\ jobs[j].data.articleId = a }

C36_OneExtractJobPerArticle ==
  /\ [](\A a \in ArticleIds : Cardinality(ExtractJobsOf(a)) <= 1)
  /\ [][ (wpc = "fetch_save" /\ wpc' = "complete") =>
           \A j \in NewJobs :
             /\ jobs'[j].type = "extract"
             /\ jobs'[j].data.articleId \in (Len(articles) + 1)..Len(articles') ]_vars

\* C37: for every source, at most one fetch job is pending or processing at
\* any time.
OpenFetchJobs(src) ==
  { j \in Unfinished : jobs[j].type = "fetch" /\ jobs[j].data.sourceId = src }

C37_OneOpenFetchPerSource ==
  \A src \in SourceIds : Cardinality(OpenFetchJobs(src)) <= 1

\* C38: with the dispatcher cycling and every call returning, every job that
\* is pending reaches completed or failed, no job is executed more often than
\* its maxAttempts, and a cycle's batch is the pending jobs from the oldest
\* on, so that a job beyond the batch moves up as its elders finish.
MaxJobId == Len(Backlog) + 1

Finished(j) == j \in JobIds /\ jobs[j].status \in {"completed", "failed"}

Executions(j) == jobs[j].attempts + (IF jobs[j].status \in {"processing", "completed"} THEN 1 ELSE 0)

C38_PendingJobsFinish ==
  /\ \A j \in 1..MaxJobId :
       (j \in JobIds /\ jobs[j].status = "pending") ~> Finished(j)
  /\ [](\A j \in JobIds : Executions(j) <= MaxAttemptsOf(jobs[j]))
  /\ [][ (wpc = "sleep" /\ wpc' = "loop") =>
           \A j \in JobIds :
             (jobs[j].status = "pending" /\ \A k \in 1..Len(batch') : batch'[k].id # j) =>
               /\ Len(batch') = BatchSize
               /\ \A k \in 1..Len(batch') : batch'[k].id < j ]_vars

\* a job that was pending beyond the first batch has finished, after a job
\* ahead of it had used all its attempts
C38_Witness ==
  /\ Finished(Len(Backlog))
  /\ \E j \in JobIds : jobs[j].status = "failed" /\ jobs[j].attempts = DefaultMaxAttempts
  /\ Unfinished = {}

\* C39: a completed job stays as it is (status, attempts and error), no
\* cycle takes it into its batch and the dispatcher never runs it again.
Completed == { j \in JobIds : jobs[j].status = "completed" }

C39_CompletedIsFinal ==
  [][ \A j \in Completed :
        /\ j \in 1..Len(jobs')
        /\ jobs'[j] = jobs[j]
        /\ \A k \in 1..Len(batch') : batch'[k].id # j
        /\ cur'.id # j ]_vars

\* the dispatcher ran a later job to its end, in a later cycle, while an
\* earlier job was completed
C39_Witness ==
  \E j \in Completed :
    \E k \in JobIds :
      /\ k > j
      /\ jobs[k].status \in {"completed", "failed"}
      /\ jobs[k].type # jobs[j].type

\* C40: a request is let through only with a token whose session exists and
\* has not expired; a logout removes the session and no later login brings
\* the token back; a request with an expired token gets 401 and removes the
\* session; and no request moves a session's expiry.
Served(token, found) == requireAuth(token, found) \/ logout(token, found)

C40_TokenNeedsLiveSession ==
  [][ /\ \A token \in Presented, found \in BOOLEAN :
           Served(token, found) =>
             /\ lastRes'.status \in {200, 401}
             /\ lastRes'.status = 200 =>
                  (token # NoToken /\ sessions[token] # NoTime /\ sessions[token] >= now)
             /\ (token # NoToken /\ sessions[token] # NoTime /\ sessions[token] < now) =>
                  (lastRes'.status = 401 /\ sessions'[token] = NoTime)
      /\ \A token \in Tokens, found \in BOOLEAN :
           (logout(token, found) /\ lastRes'.status = 200) => sessions'[token] = NoTime
      /\ \A token \in Tokens :
           /\ (token \in issued /\ sessions[token] = NoTime) => sessions'[token] = NoTime
           /\ sessions[token] # NoTime => sessions'[token] \in {sessions[token], NoTime} ]_vars

\* a request with a token whose session had expired was answered 401 and
\* the session is gone, while the session of the other token is still there
C40_Witness ==
  \E token \in issued :
    /\ lastRes = [token |-> token, status |-> 401]
    /\ sessions[token] = NoTime
    /\ now > SessionMs + HourMs
    /\ \E other \in issued : sessions[other] # NoTime /\ sessions[other] >= now

====
